---- MODULE Spec2Model ----
(***************************************************************************)
(* Scene graph of the editor: CollectionManager                            *)
(* (src/src/core/projects/ProjectManagerV2.js) over the current project's  *)
(* assets held by ProjectManager (src/src/core/projects/ProjectManager.js).*)
(*                                                                         *)
(* JavaScript objects are modelled as a heap: a node is a reference        *)
(* (1..MaxNodes) into `nodes`; `objects` and every `children` field are    *)
(* sequences of references, so that one node object can be told from a     *)
(* copy of it and can, if the code lets it, sit in two places.             *)
(*                                                                         *)
(* The pointer and touch controller of the canvas: InteractionManager      *)
(* (src/unnamed/part_005) with the events App._handleInteraction           *)
(* (src/src/app/App.js) answers. Screen places are integers chosen so that *)
(* every distance and every centre the controller computes is exact.       *)
(*                                                                         *)
(* The debounced write of the projects to storage (ProjectManager,         *)
(* src/src/utils/storage.js), the render loop and the Camera               *)
(* (src/unnamed/part_004) and the accumulated transform of a node          *)
(* (src/src/core/rendering/SVGRenderer.js). A zoom level is an integer or  *)
(* NaN; a scale is a fraction.                                             *)
(***************************************************************************)
EXTENDS Integers, Sequences, FiniteSets, TLC

\* Size of the heap: the node objects ever created (by add and by clone's
\* deep copy) in a run of Spec.
MaxNodes == 4

\* The node objects created in a run of the specifications without clone.
MaxTreeNodes == 3

\* update() writes a name out of 1..MaxName.
MaxName == 1

\* The objects created on the canvas in a run of SpecSelect.
MaxShapes == 2

\* The fingers on the canvas at one time.
MaxTouches == 2

\* The drag events of a run that move an object or an anchor.
MaxDrags == 1

\* The callbacks that subscribe to the CollectionManager.
MaxListeners == 2

\* The scenes handed to requestRender.
MaxScenes == 4

\* The calls of render() that are counted between two display refreshes.
MaxRenders == 2

\* The projects the project manager holds at a time.
MaxProjects == 2

Null == 0
Refs == 1..MaxNodes
Listeners == 1..MaxListeners
Scenes == 1..MaxScenes
Ids == 1..MaxNodes

\* Ids that do not match the id-safe pattern (a value that is no string,
\* the empty string, a string with a character outside [a-zA-Z0-9_-]).
BadIds == {-2}

\* The ids a caller may pass.
AnyIds == Ids \cup BadIds

VARIABLES
  objects,    \* CollectionManager.objects: the top-level list (references)
  nodes,      \* the heap: reference -> node object
  assets,     \* ProjectManager: current project's assets list
  scenario,   \* position in the scripted scenario add, add, move, removeFromGroup
  im,         \* the InteractionManager's fields
  viewBox,    \* the viewBox attribute of the svg element: the view window
  selectedObject,  \* App.selectedObject (a reference)
  contacts,   \* the fingers on the canvas and whether a mouse button is held
  emitted,    \* the event the last handler passed to onUpdate
  watch,      \* armed: a handle was pressed since all contacts were released;
              \* quiet: a two-finger gesture ended and nothing was pressed
              \* since; moves: the drag events that have moved something;
              \* wrote: what the last save() did to storage;
              \* renders, drawn, requested: the calls of render() since the
              \* display refresh before the last step (closed: the last
              \* step was a display refresh), the scene the last of them
              \* drew and the scene requested last
  camera,     \* App.camera: the Camera
  pm,         \* the ProjectManager: unsaved changes, timers, storage
  listeners,  \* the callbacks subscribed to the CollectionManager
  engine      \* the RenderEngine: isRendering, needsRender, pendingScene

gestureVars ==
  <<im, viewBox, selectedObject, contacts, emitted, watch, camera, engine>>

vars == <<objects, nodes, assets, scenario, im, viewBox, selectedObject,
          contacts, emitted, watch, camera, pm, listeners, engine>>

\* A slot of the heap no object has been created in yet.
FreeNode ==
  [id |-> Null, group |-> FALSE, children |-> <<>>, name |-> <<>>,
   locked |-> FALSE, offset |-> <<0, 0>>, rotate |-> 0, anchor |-> <<0, 0>>]

Allocated(h) == {r \in Refs : h[r].id # Null}

Range(s) == {s[i] : i \in 1..Len(s)}

RemoveAt(s, i) == SubSeq(s, 1, i - 1) \o SubSeq(s, i + 1, Len(s))

\* Array.prototype.findIndex(o => o.id === id) over a list of references:
\* the first index whose node has that id, 0 when there is none.
FindIndex(h, s, id) ==
  IF \E i \in 1..Len(s) : h[s[i]].id = id
    THEN CHOOSE i \in 1..Len(s) :
           /\ h[s[i]].id = id
           /\ \A j \in 1..(i - 1) : h[s[j]].id # id
    ELSE 0

\* obj.type === 'group' || obj.svg_element === 'g'
IsGroup(h, r) == h[r].group

\* validateId: a string of the id-safe pattern. The ids of Ids are of that
\* form, the ids of BadIds are not.
validateId(id) == id \in Ids

\* getById: the top-level list only.
getById(objs, h, id) ==
  IF ~validateId(id) THEN Null
  ELSE LET i == FindIndex(h, objs, id) IN IF i = 0 THEN Null ELSE objs[i]

\* findInGroupChildren: depth-first, a child before the children of the
\* child, children in order. SearchChildren(h, ch, i, id) is the loop from
\* the i-th child on.
RECURSIVE SearchChildren(_, _, _, _)
SearchChildren(h, ch, i, id) ==
  IF i > Len(ch) THEN Null
  ELSE LET c == ch[i] IN
    IF h[c].id = id THEN c
    ELSE LET found == IF IsGroup(h, c)
                        THEN SearchChildren(h, h[c].children, 1, id)
                        ELSE Null
         IN IF found # Null THEN found ELSE SearchChildren(h, ch, i + 1, id)

findInGroupChildren(h, g, id) == SearchChildren(h, h[g].children, 1, id)

\* The loop of findInGroups over the top-level list, from index i on.
RECURSIVE SearchTop(_, _, _, _)
SearchTop(objs, h, i, id) ==
  IF i > Len(objs) THEN Null
  ELSE LET found == IF IsGroup(h, objs[i])
                      THEN findInGroupChildren(h, objs[i], id)
                      ELSE Null
       IN IF found # Null THEN found ELSE SearchTop(objs, h, i + 1, id)

\* A findInGroups that does not look inside groups.
findInGroupsTopOnly(objs, h, id) == getById(objs, h, id)

\* findInGroups: the top level first, then every top-level group in order.
findInGroups(objs, h, id) ==
  LET topLevel == getById(objs, h, id) IN
  IF topLevel # Null THEN topLevel ELSE SearchTop(objs, h, 1, id)

\* _removeFromGroupChildren: the heap after the call. A direct child with
\* the id is spliced out; otherwise the child groups are tried in order and
\* the first one that removed something ends the search.
RECURSIVE removeFromGroupChildren(_, _, _)
RECURSIVE RemoveNested(_, _, _, _)
RemoveNested(h, g, i, id) ==
  IF i > Len(h[g].children) THEN h
  ELSE LET c == h[g].children[i] IN
    IF IsGroup(h, c)
      THEN LET h2 == removeFromGroupChildren(h, c, id) IN
           IF h2 # h THEN h2 ELSE RemoveNested(h, g, i + 1, id)
      ELSE RemoveNested(h, g, i + 1, id)

removeFromGroupChildren(h, g, id) ==
  LET index == FindIndex(h, h[g].children, id) IN
  IF index # 0
    THEN [h EXCEPT ![g].children = RemoveAt(h[g].children, index)]
    ELSE RemoveNested(h, g, 1, id)

\* _removeFromAnyGroup: every top-level group is visited, none ends the loop.
RECURSIVE RemoveFromTop(_, _, _, _)
RemoveFromTop(objs, h, i, id) ==
  IF i > Len(objs) THEN h
  ELSE RemoveFromTop(objs,
                     IF IsGroup(h, objs[i])
                       THEN removeFromGroupChildren(h, objs[i], id)
                       ELSE h,
                     i + 1, id)

removeFromAnyGroup(objs, h, id) == RemoveFromTop(objs, h, 1, id)

\* checkChildren of _isDescendantOf: some node below g has the id.
RECURSIVE checkChildren(_, _, _)
checkChildren(h, g, id) ==
  \E i \in 1..Len(h[g].children) :
    LET c == h[g].children[i] IN
      \/ h[c].id = id
      \/ (IsGroup(h, c) /\ checkChildren(h, c, id))

\* _isDescendantOf(ancestorId, descendantId): the ancestor is looked up in
\* the top-level list.
isDescendantOf(objs, h, ancestorId, descendantId) ==
  LET ancestor == getById(objs, h, ancestorId) IN
  IF ancestor = Null \/ ~IsGroup(h, ancestor) THEN FALSE
  ELSE checkChildren(h, ancestor, descendantId)

\* CollectionManager.save -> ProjectManager.updateCurrentAssets: the
\* project's assets become the list handed over.
updateCurrentAssets(objs) == objs

\* _loadFromProject that leaves the collection empty.
loadFromProjectEmpty(as) == <<>>

\* _loadFromProject, run by the project manager's notification during
\* save(): objects becomes a shallow copy of the project's assets.
loadFromProject(as) == [i \in 1..Len(as) |-> as[i]]

\* ---------------------------------------------------------------------
\* ProjectManager: the debounced write of the projects to storage.
\* A project manager is [hasUnsavedChanges, saveTimeout, timers, item]:
\* timers are the pending timeouts, oldest first (all have the same
\* delay, so the oldest fires first), and item is what storage holds under
\* the storage key.
\* ---------------------------------------------------------------------

\* The callback the App subscribes when it is constructed.
AppListener == 1

\* Nothing stored under the key.
NoItem == [present |-> FALSE, value |-> <<>>]

\* JSON.stringify of a node: its own fields, its children in place of the
\* references to them.
RECURSIVE stringify(_, _)
stringify(h, r) ==
  [id |-> h[r].id, group |-> h[r].group, name |-> h[r].name,
   locked |-> h[r].locked, offset |-> h[r].offset, rotate |-> h[r].rotate,
   anchor |-> h[r].anchor,
   children |-> [i \in 1..Len(h[r].children) |->
                   stringify(h, h[r].children[i])]]

\* _serialize: the current project's assets as they are written.
serialize(as, h) == [i \in 1..Len(as) |-> stringify(h, as[i])]

\* ---------------------------------------------------------------------
\* CollectionStorage.export and import: the JSON text of a list of nodes
\* is a sequence of tokens, [kind |-> "open"] with the fields of a node
\* that are no nodes themselves, then the tokens of its children, then
\* [kind |-> "close"].
\* ---------------------------------------------------------------------

\* The fields of a token that stands for a bracket only.
NoFields ==
  [id |-> Null, group |-> FALSE, name |-> <<>>, locked |-> FALSE,
   offset |-> <<0, 0>>, rotate |-> 0, anchor |-> <<0, 0>>]

RECURSIVE text(_)
RECURSIVE textOfList(_)
\* JSON.stringify of one node.
text(node) ==
  <<[kind |-> "open",
     fields |-> [f \in DOMAIN NoFields |-> node[f]]]>>
  \o textOfList(node.children)
  \o <<[kind |-> "close", fields |-> NoFields]>>

textOfList(list) ==
  IF list = <<>> THEN <<>> ELSE text(Head(list)) \o textOfList(Tail(list))

\* export(objects) that leaves the children of every node out.
exportTopLevel(objs, h) ==
  textOfList([i \in 1..Len(objs) |->
                [stringify(h, objs[i]) EXCEPT !.children = <<>>]])

\* export(objects): JSON.stringify(objects, null, 2)
export(objs, h) == textOfList(serialize(objs, h))

\* JSON.parse from token i on, up to the bracket that closes the list:
\* the nodes read and the place of the token after them.
RECURSIVE parseList(_, _)
parseList(json, i) ==
  IF i > Len(json) \/ json[i].kind = "close"
    THEN [list |-> <<>>, next |-> i]
    ELSE LET children == parseList(json, i + 1)
             node == [f \in DOMAIN NoFields \cup {"children"} |->
                        IF f = "children" THEN children.list
                        ELSE json[i].fields[f]]
             rest == parseList(json, children.next + 1)
         IN [list |-> <<node>> \o rest.list, next |-> rest.next]

\* import(json): JSON.parse(json), an array
import(json) == parseList(json, 1).list

\* setTimeout: a timer with an id no pending timer has.
setTimeout(timers) ==
  LET id == CHOOSE n \in 1..(Len(timers) + 1) :
              /\ n \notin Range(timers)
              /\ \A m \in 1..(n - 1) : m \in Range(timers)
  IN [timers |-> Append(timers, id), id |-> id]

\* clearTimeout: the timer with this id, if it is pending, is dropped.
clearTimeout(timers, id) == SelectSeq(timers, LAMBDA t : t # id)

\* A call on the project manager p as it begins: nothing notified, nothing
\* written, nothing thrown.
Begun(p) ==
  [pm |-> p, notified |-> 0, wrote |-> FALSE, failed |-> FALSE, ok |-> FALSE,
   raised |-> FALSE]

\* ProjectManager._notify: the CollectionManager's subscription hears it.
notify(r) == [r EXCEPT !.notified = @ + 1]

\* scheduleSave with the timeout never set.
scheduleSaveUnset(r) ==
  LET cleared == IF r.pm.saveTimeout # Null
                   THEN clearTimeout(r.pm.timers, r.pm.saveTimeout)
                   ELSE r.pm.timers
  IN notify([r EXCEPT !.pm.timers = cleared, !.pm.hasUnsavedChanges = TRUE])

\* scheduleSave: the timer whose handle is held is cleared, the changes are
\* flagged and notified, and a new timer is set whose handle is kept.
scheduleSave(r) ==
  LET cleared == IF r.pm.saveTimeout # Null
                   THEN clearTimeout(r.pm.timers, r.pm.saveTimeout)
                   ELSE r.pm.timers
      r1 == notify([r EXCEPT !.pm.timers = cleared,
                             !.pm.hasUnsavedChanges = TRUE])
      set == setTimeout(r1.pm.timers)
  IN [r1 EXCEPT !.pm.timers = set.timers, !.pm.saveTimeout = set.id]

\* The project manager after new ProjectManager({}) over a storage that
\* holds this item: load() runs before saveTimeout is set to null, and with
\* nothing stored it creates a project (createProject: scheduleSave, _notify)
\* and returns with the changes flagged.
newProjectManager(item) ==
  LET p == [hasUnsavedChanges |-> FALSE, saveTimeout |-> Null,
            timers |-> <<>>, item |-> item,
            projects |-> <<[current |-> TRUE, assets |-> <<>>]>>]
      loaded == IF ~item.present
                  THEN notify(scheduleSave(Begun(p))).pm
                  ELSE [p EXCEPT !.hasUnsavedChanges = FALSE]
  IN [loaded EXCEPT !.saveTimeout = Null]

\* StorageManager.set with the exception of setItem let through.
storageSetThrowing(item, value, fails) ==
  IF fails THEN [ok |-> FALSE, item |-> item, raised |-> TRUE]
  ELSE [ok |-> TRUE, item |-> [present |-> TRUE, value |-> value],
        raised |-> FALSE]

\* StorageManager.set: setItem in a try; a write that fails (quota, no
\* storage) is caught, logged and answered with false.
storageSet(item, value, fails) ==
  IF fails THEN [ok |-> FALSE, item |-> item, raised |-> FALSE]
  ELSE [ok |-> TRUE, item |-> [present |-> TRUE, value |-> value],
        raised |-> FALSE]

\* save() that leaves the changes flagged after a write that succeeded.
saveKeepingFlag(r, value, fails) ==
  IF ~r.pm.hasUnsavedChanges THEN [r EXCEPT !.ok = FALSE]
  ELSE LET w == storageSet(r.pm.item, value, fails) IN
       IF w.raised THEN [r EXCEPT !.raised = TRUE, !.failed = TRUE]
       ELSE IF w.ok
         THEN notify([r EXCEPT !.pm.item = w.item, !.ok = TRUE,
                               !.wrote = TRUE])
         ELSE [r EXCEPT !.ok = FALSE, !.failed = TRUE]

\* ProjectManager.save: nothing to do without unsaved changes; otherwise
\* _persistState, and on success the flag is cleared and the listeners are
\* notified.
save(r, value, fails) ==
  IF ~r.pm.hasUnsavedChanges THEN [r EXCEPT !.ok = FALSE]
  ELSE LET w == storageSet(r.pm.item, value, fails) IN
       IF w.raised THEN [r EXCEPT !.raised = TRUE, !.failed = TRUE]
       ELSE IF w.ok
         THEN notify([r EXCEPT !.pm.item = w.item,
                               !.pm.hasUnsavedChanges = FALSE,
                               !.ok = TRUE, !.wrote = TRUE])
         ELSE [r EXCEPT !.ok = FALSE, !.failed = TRUE]

\* forceSave that is save().
forceSaveIfChanged(r, value, fails) == save(r, value, fails)

\* forceSave: the changes are flagged, then save().
forceSave(r, value, fails) ==
  save([r EXCEPT !.pm.hasUnsavedChanges = TRUE], value, fails)

\* The projects of a project manager are [current, assets], in the order of
\* this.projects: current tells the one currentProjectId names, whose
\* assets are the variable assets; assets is the list of every other one.
\* The assets of the projects that are not current, one list after another:
\* their nodes stay in memory.
RECURSIVE ShelvedFrom(_, _)
ShelvedFrom(ps, i) ==
  IF i > Len(ps) THEN <<>>
  ELSE (IF ps[i].current THEN <<>> ELSE ps[i].assets) \o ShelvedFrom(ps, i + 1)

Shelved(p) == ShelvedFrom(p.projects, 1)

\* The projects with the current one, whose assets are as, put aside.
PutAside(ps, as) ==
  [k \in 1..Len(ps) |->
     IF ps[k].current THEN [current |-> FALSE, assets |-> as] ELSE ps[k]]

\* The projects with the i-th one made the current one.
MadeCurrent(ps, i) ==
  [k \in 1..Len(ps) |->
     IF k = i THEN [current |-> TRUE, assets |-> <<>>] ELSE ps[k]]

\* createProject(title, setAsCurrent): a project without assets is pushed
\* and, if asked for, made the current one; scheduleSave, _notify. The
\* answer is the call and the assets of the project that is current then.
createProject(r, as, setAsCurrent) ==
  LET ps == r.pm.projects
      project == [current |-> setAsCurrent, assets |-> <<>>]
      pushed == Append(IF setAsCurrent THEN PutAside(ps, as) ELSE ps, project)
  IN [call |-> notify(scheduleSave([r EXCEPT !.pm.projects = pushed,
                                             !.ok = TRUE])),
      assets |-> IF setAsCurrent THEN <<>> ELSE as]

\* loadProject(id), i the place of the project with the id (none: false
\* and nothing done): the current project is saved if changes are flagged;
\* then the project is made the current one, the flag is cleared, the
\* listeners are notified and the state is written.
loadProject(r, as, h, i, fails) ==
  IF i \notin 1..Len(r.pm.projects) THEN [call |-> r, assets |-> as]
  ELSE
    LET r1 == IF r.pm.hasUnsavedChanges THEN save(r, serialize(as, h), fails)
              ELSE r
        ps == r1.pm.projects
        target == IF ps[i].current THEN as ELSE ps[i].assets
        r2 == notify([r1 EXCEPT
                        !.pm.projects = MadeCurrent(PutAside(ps, as), i),
                        !.pm.hasUnsavedChanges = FALSE])
        w == storageSet(r2.pm.item, serialize(target, h), fails)
    IN [call |-> [r2 EXCEPT !.pm.item = w.item, !.ok = TRUE,
                            !.wrote = r2.wrote \/ w.ok,
                            !.failed = r2.failed \/ ~w.ok],
        assets |-> target]

\* deleteProject(id), i the place of the project with the id (none: false):
\* the only project is not deleted; otherwise it is spliced out, the first
\* project that is left becomes the current one if the deleted one was;
\* scheduleSave, _notify.
deleteProject(r, as, i) ==
  LET ps == r.pm.projects IN
  IF i \notin 1..Len(ps) \/ Len(ps) = 1 THEN [call |-> r, assets |-> as]
  ELSE
    LET left == [k \in 1..(Len(ps) - 1) |-> IF k < i THEN ps[k] ELSE ps[k + 1]]
        target == IF ps[i].current THEN left[1].assets ELSE as
        rest == IF ps[i].current THEN MadeCurrent(left, 1) ELSE left
    IN [call |-> notify(scheduleSave([r EXCEPT !.pm.projects = rest,
                                               !.ok = TRUE])),
        assets |-> target]

\* What a call of save() or forceSave() leaves: a notification runs
\* _loadFromProject, which replaces objects by a copy of the assets.
\* `failed`: a write was tried and did not succeed.
Written(objs, h, as, r) ==
  [objects |-> IF r.notified > 0 THEN loadFromProject(as) ELSE objs,
   nodes |-> h, assets |-> as, pm |-> r.pm, raised |-> r.raised,
   wrote |-> r.wrote, failed |-> r.failed]

\* The callback of the oldest pending timer: this.save().
timerFired(objs, h, as, p, fails) ==
  Written(objs, h, as,
          save(Begun([p EXCEPT !.timers = Tail(@)]), serialize(as, h), fails))

\* The project manager's part of updateCurrentAssets once the assets are
\* replaced: scheduleSave, then _notify.
assetsUpdated(r) == notify(scheduleSave(r))

\* CollectionManager.save() and _notify() at the end of a call that
\* changed the scene graph: every notification of the project manager
\* runs _loadFromProject, which notifies the collection's listeners, and
\* _notify() notifies them once more. `heard` is how often each listener
\* was called.
announced(res, p, ls) ==
  LET r == IF res.saved THEN assetsUpdated(Begun(p)) ELSE Begun(p) IN
  [pm |-> r.pm,
   heard |-> [l \in ls |-> IF res.saved THEN r.notified + 1 ELSE 0]]

\* The result of a call that returns null or false before changing anything.
Unchanged(objs, h) ==
  [objects |-> objs, nodes |-> h, ok |-> FALSE, ref |-> Null, saved |-> FALSE,
   raised |-> FALSE]

\* The result of a call that throws before changing anything.
Raised(objs, h) == [Unchanged(objs, h) EXCEPT !.raised = TRUE]

\* The next object the caller creates: slots are handed out in order.
NextFree(h) ==
  CHOOSE r \in Refs : h[r].id = Null /\ \A s \in 1..(r - 1) : h[s].id # Null

HasFree(h) == \E r \in Refs : h[r].id = Null

\* _generateId: an id no node has (random in the code). Every id in use is
\* the number of an allocated slot, so the number of the new slot is unused.
generateId(h) == NextFree(h)

\* add(obj), obj a new childless object with the given id and kind, at the
\* origin (offset {x: 0, y: 0}, what a missing offset is read as), not
\* rotated, its one anchor (nodes[0]) at (0, 0). A duplicate is looked for
\* with getById, that is in the top-level list.
add(objs, h, id, isGroup) ==
  IF getById(objs, h, id) # Null
    THEN Raised(objs, h)
    ELSE LET r == NextFree(h)
             h2 == [h EXCEPT ![r] = [id |-> id, group |-> isGroup,
                                     children |-> <<>>, name |-> <<>>,
                                     locked |-> FALSE, offset |-> <<0, 0>>,
                                     rotate |-> 0, anchor |-> <<0, 0>>]]
         IN [objects |-> Append(objs, r), nodes |-> h2, ok |-> TRUE,
             ref |-> r, saved |-> TRUE, raised |-> FALSE]

\* The values a caller passes as updates: an object {name: ..} or a value
\* that is no object (null, an array, a string) with the same content.
Updates ==
  {[isObject |-> b, fields |-> [name |-> <<v>>]] :
     b \in BOOLEAN, v \in 1..MaxName}

isObject(value) == value.isObject

\* Object.assign(obj, updates): the fields of updates replace obj's.
assign(obj, updates) ==
  [f \in DOMAIN obj |->
     IF f \in DOMAIN updates.fields THEN updates.fields[f] ELSE obj[f]]

\* An update that tests the shape of updates before the id.
updateShapeFirst(objs, h, id, updates) ==
  IF ~isObject(updates)
    THEN Raised(objs, h)
  ELSE IF ~validateId(id)
    THEN Unchanged(objs, h)
    ELSE LET obj == findInGroups(objs, h, id) IN
      IF obj = Null
        THEN Unchanged(objs, h)
        ELSE [objects |-> objs,
              nodes |-> [h EXCEPT ![obj] = assign(h[obj], updates)],
              ok |-> TRUE, ref |-> obj, saved |-> TRUE, raised |-> FALSE]

\* update(id, updates): Object.assign on the node findInGroups returns.
update(objs, h, id, updates) ==
  IF ~validateId(id)
    THEN Unchanged(objs, h)
  ELSE IF ~isObject(updates)
    THEN Raised(objs, h)
    ELSE LET obj == findInGroups(objs, h, id) IN
      IF obj = Null
        THEN Unchanged(objs, h)
        ELSE [objects |-> objs,
              nodes |-> [h EXCEPT ![obj] = assign(h[obj], updates)],
              ok |-> TRUE, ref |-> obj, saved |-> TRUE, raised |-> FALSE]

\* A remove that also takes a node out of the group that holds it.
removeAnywhere(objs, h, id) ==
  LET index == IF validateId(id) THEN FindIndex(h, objs, id) ELSE 0 IN
  IF index # 0
    THEN [objects |-> RemoveAt(objs, index), nodes |-> h, ok |-> TRUE,
          ref |-> Null, saved |-> TRUE, raised |-> FALSE]
    ELSE IF findInGroups(objs, h, id) = Null THEN Unchanged(objs, h)
    ELSE [objects |-> objs, nodes |-> removeFromAnyGroup(objs, h, id),
          ok |-> TRUE, ref |-> Null, saved |-> TRUE, raised |-> FALSE]

\* remove(id): splices the first top-level node with the id.
remove(objs, h, id) ==
  LET index == IF validateId(id) THEN FindIndex(h, objs, id) ELSE 0 IN
  IF index = 0
    THEN Unchanged(objs, h)
    ELSE [objects |-> RemoveAt(objs, index), nodes |-> h, ok |-> TRUE,
          ref |-> Null, saved |-> TRUE, raised |-> FALSE]

\* JSON.parse(JSON.stringify(obj)): a new object for the node and for every
\* node below it, each with the fields of the one it copies (ids included).
RECURSIVE CopyNode(_, _)
RECURSIVE CopyList(_, _, _, _)
CopyList(h, ch, i, acc) ==
  IF i > Len(ch) THEN [nodes |-> h, refs |-> acc]
  ELSE LET c == CopyNode(h, ch[i]) IN
       CopyList(c.nodes, ch, i + 1, Append(acc, c.ref))

CopyNode(h, r) ==
  LET kids == CopyList(h, h[r].children, 1, <<>>)
      n == NextFree(kids.nodes)
  IN [nodes |-> [kids.nodes EXCEPT ![n] = [id |-> h[r].id, group |-> h[r].group,
                                            children |-> kids.refs,
                                            name |-> h[r].name,
                                            locked |-> h[r].locked,
                                            offset |-> h[r].offset,
                                            rotate |-> h[r].rotate,
                                            anchor |-> h[r].anchor]],
      ref |-> n]

\* The number of objects the deep copy of r creates.
RECURSIVE CopySize(_, _)
CopySize(h, r) ==
  LET ch == h[r].children
      SumFrom[i \in 1..(Len(ch) + 1)] ==
        IF i > Len(ch) THEN 0 ELSE CopySize(h, ch[i]) + SumFrom[i + 1]
  IN 1 + SumFrom[1]

\* cloned.name: `${name}_copy` (a 0 appended), or the new id when the node
\* has no name (the id i is written MaxName + i).
CopyName(name, id) == IF name # <<>> THEN Append(name, 0) ELSE <<MaxName + id>>

\* clone(id): the node is looked up with getById, the copy gets a generated
\* id and goes through add.
clone(objs, h, id) ==
  LET obj == getById(objs, h, id) IN
  IF obj = Null
    THEN Unchanged(objs, h)
    ELSE LET c == CopyNode(h, obj)
             newId == c.ref
             h2 == [c.nodes EXCEPT ![c.ref].id = newId,
                                   ![c.ref].name = CopyName(h[obj].name, newId)]
         IN IF getById(objs, h2, newId) # Null
              THEN [objects |-> objs, nodes |-> h2, ok |-> FALSE, ref |-> Null,
                    saved |-> FALSE, raised |-> FALSE]
              ELSE [objects |-> Append(objs, c.ref), nodes |-> h2, ok |-> TRUE,
                    ref |-> c.ref, saved |-> TRUE, raised |-> FALSE]

\* The checks of moveToGroup without the one for objectId === groupId.
moveRejectsNoSelfCheck(objs, h, objectId, groupId) ==
  IF ~validateId(objectId) \/ ~validateId(groupId) THEN TRUE
  ELSE
    LET obj == findInGroups(objs, h, objectId)
        group == getById(objs, h, groupId)
    IN
    IF obj = Null \/ group = Null THEN TRUE
    ELSE IF ~IsGroup(h, group) THEN TRUE
    ELSE IF isDescendantOf(objs, h, groupId, objectId) THEN TRUE
    ELSE IsGroup(h, obj) /\ isDescendantOf(objs, h, objectId, groupId)

\* moveToGroup, first half: the conditions under which it returns false
\* before it has touched anything.
moveRejects(objs, h, objectId, groupId) ==
  IF ~validateId(objectId) \/ ~validateId(groupId) THEN TRUE
  ELSE
    LET obj == findInGroups(objs, h, objectId)
        group == getById(objs, h, groupId)
    IN
    IF obj = Null \/ group = Null THEN TRUE
    ELSE IF ~IsGroup(h, group) THEN TRUE
    ELSE IF objectId = groupId THEN TRUE
    ELSE IF isDescendantOf(objs, h, groupId, objectId) THEN TRUE
    ELSE IsGroup(h, obj) /\ isDescendantOf(objs, h, objectId, groupId)

\* moveToGroup, second half: the object leaves the top-level list and the
\* groups, and becomes the last child of the target.
moveApply(objs, h, objectId, groupId) ==
  LET obj == findInGroups(objs, h, objectId)
      group == getById(objs, h, groupId)
      topLevelIndex == FindIndex(h, objs, objectId)
      objs2 == IF topLevelIndex # 0 THEN RemoveAt(objs, topLevelIndex) ELSE objs
      h2 == removeFromAnyGroup(objs2, h, objectId)
      h3 == [h2 EXCEPT ![group].children = Append(h2[group].children, obj)]
  IN [objects |-> objs2, nodes |-> h3, ok |-> TRUE, ref |-> Null, saved |-> TRUE,
      raised |-> FALSE]

\* A moveToGroup that takes the object out of the top-level list before it
\* has checked the move.
moveToGroupSpliceFirst(objs, h, objectId, groupId) ==
  IF moveRejects(objs, h, objectId, groupId)
    THEN LET topLevelIndex == FindIndex(h, objs, objectId) IN
         Unchanged(IF topLevelIndex # 0 THEN RemoveAt(objs, topLevelIndex) ELSE objs,
                   h)
    ELSE moveApply(objs, h, objectId, groupId)

\* moveToGroup(objectId, groupId)
moveToGroup(objs, h, objectId, groupId) ==
  IF moveRejects(objs, h, objectId, groupId)
    THEN Unchanged(objs, h)
    ELSE moveApply(objs, h, objectId, groupId)

\* A removeFromGroup that appends the object to the top-level list without
\* looking whether it is there already.
removeFromGroupAlwaysPush(objs, h, objectId) ==
  IF ~validateId(objectId) THEN Unchanged(objs, h)
  ELSE
    LET obj == findInGroups(objs, h, objectId) IN
    IF obj = Null THEN Unchanged(objs, h)
    ELSE [objects |-> Append(objs, obj),
          nodes |-> removeFromAnyGroup(objs, h, objectId),
          ok |-> TRUE, ref |-> Null, saved |-> TRUE, raised |-> FALSE]

\* removeFromGroup(objectId)
removeFromGroup(objs, h, objectId) ==
  IF ~validateId(objectId) THEN Unchanged(objs, h)
  ELSE
    LET obj == findInGroups(objs, h, objectId) IN
    IF obj = Null THEN Unchanged(objs, h)
    ELSE
      LET h2 == removeFromAnyGroup(objs, h, objectId)
          objs2 == IF getById(objs, h2, objectId) = Null THEN Append(objs, obj) ELSE objs
      IN [objects |-> objs2, nodes |-> h2, ok |-> TRUE, ref |-> Null,
          saved |-> TRUE, raised |-> FALSE]

----
(***************************************************************************)
(* Gesture controller: InteractionManager (src/unnamed/part_005) and the   *)
(* part of App._handleInteraction (src/src/app/App.js) that answers its    *)
(* events within the same call. Pointer positions are client pixels.       *)
(* clickStartX and clickStartY, which nothing reads, are not kept, nor is  *)
(* activePointerType, which only decides whether a move calls              *)
(* preventDefault.                                                         *)
(***************************************************************************)

\* this.gestureThreshold
gestureThreshold == 10

\* this.wheelZoomStep, in tenths (0.1)
wheelZoomStep == 1

\* The size of the reference canvas the pan clamp is written against.
baseWidth == 1920
baseHeight == 1080

\* svg.getBoundingClientRect(): where the canvas is on the screen.
svgRect == [left |-> 0, top |-> 0, width |-> 16, height |-> 12]

\* The places a pointer or a finger can be at: three corners of the canvas
\* on the screen and one place outside of it.
Points == {<<0, 0>>, <<16, 0>>, <<16, 12>>, <<32, 24>>}

\* data-type of a handle.
HandleTypes == {"origin", "anchor"}

NoHandle == [type |-> "none", index |-> 0, objectId |-> Null]
NoViewBox == [x |-> 0, y |-> 0, width |-> 0, height |-> 0]
NoEvent == [type |-> "none"]

Min(a, b) == IF a < b THEN a ELSE b
Max(a, b) == IF a > b THEN a ELSE b
Abs(a) == IF a < 0 THEN -a ELSE a

\* config.js: defaultZoom
\* ---------------------------------------------------------------------
\* RenderEngine: requestRender and the render loop. A call answers with
\* the engine it leaves and the scene render() was called with (Null: it
\* was not called).
\* ---------------------------------------------------------------------

\* The handle requestAnimationFrame returns.
AFrame == 1

newRenderEngine ==
  [isRendering |-> FALSE, needsRender |-> FALSE, frameId |-> Null,
   pendingScene |-> Null]

\* renderFrame, the callback of the loop: a pending scene that needs it
\* is rendered, and the next frame is requested.
renderFrame(e) ==
  LET draws == e.needsRender /\ e.pendingScene # Null IN
  [engine |-> [e EXCEPT !.needsRender = IF draws THEN FALSE ELSE @,
                        !.frameId = AFrame],
   drawn |-> IF draws THEN e.pendingScene ELSE Null]

\* _startRenderLoop: the loop is marked as running and renderFrame is
\* called at once.
startRenderLoop(e) ==
  IF e.isRendering THEN [engine |-> e, drawn |-> Null]
  ELSE renderFrame([e EXCEPT !.isRendering = TRUE])

\* requestRender(scene)
requestRender(e, scene) ==
  LET e1 == [e EXCEPT !.needsRender = TRUE, !.pendingScene = scene] IN
  IF ~e1.isRendering THEN startRenderLoop(e1)
  ELSE [engine |-> e1, drawn |-> Null]

\* resize(width, height)
resize(e) == [e EXCEPT !.needsRender = TRUE]

\* stop(): the loop ends and the frame requested is cancelled.
stop(e) ==
  [e EXCEPT !.isRendering = FALSE, !.needsRender = FALSE, !.frameId = Null]

defaultZoom == 200

\* Camera: the defaults of the constructor.
minZoom == -50
maxZoom == 2000
zoomStep == 50
wheelZoomScale == 4

\* new Camera({z}): options.z || 200, every other option left out.
newCamera(z) ==
  [x |-> 0, y |-> 0, z |-> IF z # 0 THEN z ELSE defaultZoom,
   minZoom |-> minZoom, maxZoom |-> maxZoom, zoomStep |-> zoomStep,
   wheelZoomScale |-> wheelZoomScale, rotation |-> <<0, 0, 0>>]

\* Camera.getState()
getState(c) == [x |-> c.x, y |-> c.y, z |-> c.z, rotation |-> c.rotation]

\* The number NaN, which no zoom level is: kept as a value out of the
\* reach of every sum the model makes.
NaN == -1000000

\* a + b and a * b of numbers, NaN when either is.
Plus(a, b) == IF a = NaN \/ b = NaN THEN NaN ELSE a + b
Times(a, b) == IF a = NaN \/ b = NaN THEN NaN ELSE a * b
Minus(a, b) == IF a = NaN \/ b = NaN THEN NaN ELSE a - b

\* clamp(value, min, max): Math.min(Math.max(value, min), max), which is
\* NaN for the value NaN.
clamp(value, min, max) ==
  IF value = NaN THEN NaN ELSE Min(Max(value, min), max)

\* Camera.setZoom(z)
setZoom(c, z) == [c EXCEPT !.z = clamp(z, c.minZoom, c.maxZoom)]

\* Camera.zoomIn(amount): amount || this.zoomStep, which is the step for
\* an amount left out (null), for 0 and for NaN.
zoomIn(c, amount) ==
  LET step == IF amount # 0 /\ amount # NaN THEN amount ELSE c.zoomStep IN
  setZoom(c, Minus(c.z, step))

\* Camera.zoomOut(amount)
zoomOut(c, amount) ==
  LET step == IF amount # 0 /\ amount # NaN THEN amount ELSE c.zoomStep IN
  setZoom(c, Plus(c.z, step))

\* Camera.zoomWheel(delta)
zoomWheel(c, delta) ==
  LET zoomDelta == Times(delta, c.wheelZoomScale) IN
  setZoom(c, Minus(c.z, zoomDelta))

\* ---------------------------------------------------------------------
\* SVGRenderer._calculateAccumulatedTransform
\* ---------------------------------------------------------------------

\* findObjectAndParents found nothing.
NotFound == [object |-> Null, parents |-> <<>>]

\* findObjectAndParents(objs, targetId, parents), from the i-th node of
\* objs on: the first node with the id in depth-first order, and the groups
\* on the way to it.
RECURSIVE findObjectAndParents(_, _, _, _, _)
findObjectAndParents(h, objs, i, targetId, parents) ==
  IF i > Len(objs) THEN NotFound
  ELSE LET obj == objs[i] IN
    IF h[obj].id = targetId THEN [object |-> obj, parents |-> parents]
    ELSE LET found == IF IsGroup(h, obj)
                        THEN findObjectAndParents(h, h[obj].children, 1,
                                                  targetId,
                                                  Append(parents, obj))
                        ELSE NotFound
         IN IF found # NotFound THEN found
            ELSE findObjectAndParents(h, objs, i + 1, targetId, parents)

\* The offsets of the parents, added up.
RECURSIVE SumOffsets(_, _, _)
SumOffsets(h, parents, k) ==
  IF parents = <<>> THEN 0
  ELSE h[Head(parents)].offset[k] + SumOffsets(h, Tail(parents), k)

\* _calculateAccumulatedTransform(objects, objectId, camera): x, y and the
\* scale as the fraction <<numerator, denominator>>.
calculateAccumulatedTransform(objs, h, objectId, cam) ==
  LET result == findObjectAndParents(h, objs, 1, objectId, <<>>) IN
  IF result = NotFound THEN [x |-> 0, y |-> 0, scale |-> <<1, 1>>]
  ELSE [x |-> h[result.object].offset[1] + cam.x
                + SumOffsets(h, result.parents, 1),
        y |-> h[result.object].offset[2] + cam.y
                + SumOffsets(h, result.parents, 2),
        scale |-> IF cam.z # 0 /\ cam.z # NaN THEN <<200, cam.z>>
                  ELSE <<1, 1>>]

\* Fractions <<numerator, denominator>>: their product, and whether two
\* are the same number.
Product(a, b) == <<a[1] * b[1], a[2] * b[2]>>
SameNumber(a, b) == a[1] * b[2] = b[1] * a[2]

\* _renderObject(obj, camera): the g element of obj carries
\* scale(200 / camera.z) and holds the g elements of its children, drawn
\* with the camera {x: 0, y: 0, z: camera.z}. The result is every node drawn
\* with the scale its element ends up with, `outer` being the scale of the
\* elements around it.
RECURSIVE renderObject(_, _, _, _)
renderObject(h, obj, cam, outer) ==
  LET scale == IF cam.z # 0 /\ cam.z # NaN THEN <<200, cam.z>> ELSE <<1, 1>>
      own == Product(outer, scale)
  IN {[object |-> obj, scale |-> own]}
     \cup IF IsGroup(h, obj)
            THEN UNION {renderObject(h, h[obj].children[i],
                                     [x |-> 0, y |-> 0, z |-> cam.z], own) :
                          i \in 1..Len(h[obj].children)}
            ELSE {}

\* render(scene): every top-level object is drawn into the objects layer.
render(objs, h, cam) ==
  UNION {renderObject(h, objs[i], cam, <<1, 1>>) : i \in 1..Len(objs)}

\* _toWorldDelta: const baseZ = 200
baseZ == 200

\* Math.sqrt, for the squares the places of Points give.
IsSquare(n) == \E r \in 0..n : r * r = n
Sqrt(n) == CHOOSE r \in 0..n : r * r = n

SquaredDistance(p, q) ==
  (q[1] - p[1]) * (q[1] - p[1]) + (q[2] - p[2]) * (q[2] - p[2])

\* e.touches[0], e.touches[1]: two fingers at two places whose distance
\* Sqrt gives exactly.
TouchPairs ==
  {t \in Points \X Points : t[1] # t[2] /\ IsSquare(SquaredDistance(t[1], t[2]))}

\* The centre of two touches: every coordinate sum of Points is even.
Center(t) == <<(t[1][1] + t[2][1]) \div 2, (t[1][2] + t[2][2]) \div 2>>

\* The view windows the renderer's zoom produces: the reference canvas
\* divided by a zoom level.
ZoomLevels == {1, 2}

\* svgRenderer.getZoom()
getZoom(vb) == baseWidth \div vb.width

\* svgRenderer.zoomToPoint(zoom, centerX, centerY), zoom the fraction
\* num / den: the zoom is brought to the largest level not above it (to the
\* smallest level when there is none), the point (centerX, centerY) keeps
\* its place on the screen and the window stays inside the reference canvas.
zoomToPoint(vb, zoom, centerX, centerY) ==
  LET below == {l \in ZoomLevels : l * zoom.den <= zoom.num}
      level == IF below = {} THEN 1
               ELSE CHOOSE l \in below : \A k \in below : k <= l
      w == baseWidth \div level
      h == baseHeight \div level
      x == centerX - ((centerX - vb.x) * w) \div vb.width
      y == centerY - ((centerY - vb.y) * h) \div vb.height
  IN [x |-> Max(0, Min(baseWidth - w, x)), y |-> Max(0, Min(baseHeight - h, y)),
      width |-> w, height |-> h]

\* The InteractionManager the constructor builds and App mounts
\* (_updateInteractionState gives it the camera's state). pinchCenterX and
\* pinchCenterY, written and read within one move, are not kept.
newInteractionManager ==
  [isDragging |-> FALSE, isPanning |-> FALSE,
   dragHandle |-> NoHandle, panStartViewBox |-> NoViewBox,
   panStartX |-> 0, panStartY |-> 0, lastX |-> 0, lastY |-> 0,
   camera |-> getState(newCamera(defaultZoom)),
   isTwoFingerGesture |-> FALSE, gestureType |-> "none",
   initialPinchDistance |-> 0, initialZoom |-> 1,
   initialPinchCenterX |-> 0, initialPinchCenterY |-> 0]

\* reset()
reset(m) ==
  [m EXCEPT !.isDragging = FALSE, !.isPanning = FALSE, !.dragHandle = NoHandle,
            !.panStartViewBox = NoViewBox,
            !.isTwoFingerGesture = FALSE, !.gestureType = "none",
            !.initialPinchDistance = 0, !.initialZoom = 1,
            !.initialPinchCenterX = 0, !.initialPinchCenterY = 0]

\* lastX and lastY are kept while a drag is on. Only the drag branch of
\* _handlePointerMove reads them, and a drag begins in a pointer-down,
\* which has written them.
Settled(m) ==
  IF m.isDragging /\ m.dragHandle # NoHandle
    THEN m ELSE [m EXCEPT !.lastX = 0, !.lastY = 0]

\* A _startPanning that does not look at the view window.
startPanningAlways(m, vb, clientX, clientY) ==
  [m EXCEPT !.isPanning = TRUE, !.isDragging = FALSE,
            !.dragHandle = NoHandle, !.panStartViewBox = vb,
            !.panStartX = clientX, !.panStartY = clientY]

\* _startPanning: only when the view window is narrower than baseWidth.
startPanning(m, vb, clientX, clientY) ==
  IF ~(vb.width < baseWidth)
    THEN m
    ELSE [m EXCEPT !.isPanning = TRUE, !.isDragging = FALSE,
                   !.dragHandle = NoHandle, !.panStartViewBox = vb,
                   !.panStartX = clientX, !.panStartY = clientY]

\* _startTwoFingerPanning
startTwoFingerPanning(m, vb, centerX, centerY) ==
  [m EXCEPT !.isPanning = TRUE, !.isDragging = FALSE,
            !.dragHandle = NoHandle, !.panStartViewBox = vb,
            !.panStartX = centerX, !.panStartY = centerY]

\* setCamera(camera): the controller's copy of the camera
setCamera(m, cam) == [m EXCEPT !.camera = cam]

\* App.renderScene: _updateInteractionState hands the camera's state to the
\* controller before the scene is drawn.
renderScene(st) == [st EXCEPT !.im = setCamera(st.im, getState(st.camera))]

\* App._selectObject(obj)
selectObject(st, obj) == renderScene([st EXCEPT !.selectedObject = obj])

\* A call the App makes on the CollectionManager while it answers an
\* event: res is what the call returned.
called(st, res) ==
  [st EXCEPT !.objects = res.objects, !.nodes = res.nodes,
             !.saved = st.saved \/ res.saved]

\* The answer to a drag event: the origin handle moves the offset of the
\* object findInGroups returns (a group has no other handle that moves
\* it), the anchor handle moves the anchor nodes[index] of an object that
\* is no group. Whether the object is locked is not looked at.
dragged(st, handle, delta) ==
  LET obj == findInGroups(st.objects, st.nodes, handle.objectId) IN
  IF obj = Null THEN st
  ELSE LET n == st.nodes[obj]
           moved(at) == <<at[1] + delta[1], at[2] + delta[2]>>
           selected == st.selectedObject # Null
                       /\ st.nodes[st.selectedObject].id = handle.objectId
  IN IF IsGroup(st.nodes, obj) THEN
       IF handle.type = "origin"
         THEN LET res == update(st.objects, st.nodes, handle.objectId,
                                [isObject |-> TRUE,
                                 fields |-> [offset |-> moved(n.offset)]])
                  st2 == called(st, res)
              IN renderScene(
                   IF selected /\ res.ref # Null
                     THEN [st2 EXCEPT !.selectedObject = res.ref] ELSE st2)
         ELSE renderScene(st)
     ELSE
       LET updates ==
             IF handle.type = "origin"
               THEN [offset |-> moved(n.offset)]
               ELSE [anchor |-> moved(n.anchor)]
           st2 == IF handle.type = "origin" \/ handle.index = 0
                    THEN called(st, update(st.objects, st.nodes,
                                           handle.objectId,
                                           [isObject |-> TRUE,
                                            fields |-> updates]))
                    ELSE st
           found == findInGroups(st2.objects, st2.nodes, handle.objectId)
       IN renderScene(IF selected THEN [st2 EXCEPT !.selectedObject = found]
                                  ELSE st2)

\* this.onUpdate(event): App._handleInteraction answers within the call.
\* st is the controller with what the App holds and works on: [im,
\* viewBox, selectedObject, camera, objects, nodes, saved, emitted], saved
\* telling whether CollectionManager.save() has run.
handleInteraction(st, objs, h, event) ==
  LET st1 == [st EXCEPT !.emitted = event] IN
  IF event.type = "pointer-down-on-handle" THEN
    LET obj == findInGroups(objs, h, event.objectId) IN
    IF obj # Null /\ h[obj].locked
      THEN [st1 EXCEPT !.im = startPanning(st.im, st.viewBox,
                                           event.clientX, event.clientY)]
      ELSE renderScene(
             [st1 EXCEPT !.im.isDragging = TRUE,
                         !.im.dragHandle = [type |-> event.handleType,
                                            index |-> event.index,
                                            objectId |-> event.objectId]])
  ELSE IF event.type = "pointer-down-on-object" THEN
    LET obj == findInGroups(objs, h, event.objectId) IN
    IF obj # Null /\ h[obj].locked
      THEN selectObject([st1 EXCEPT !.im = startPanning(st.im, st.viewBox,
                                             event.clientX, event.clientY)],
                        obj)
      ELSE IF event.handleType = "origin" /\ event.hasObjectId
        THEN selectObject([st1 EXCEPT !.im.isDragging = TRUE,
                              !.im.dragHandle = [type |-> "origin",
                                                 index |-> event.index,
                                                 objectId |-> event.objectId]],
                          obj)
        ELSE selectObject(st1, obj)
  ELSE IF event.type = "pan"
    THEN renderScene([st1 EXCEPT !.viewBox = event.viewBox])
  ELSE IF event.type = "get-initial-zoom"
    THEN [st1 EXCEPT !.im.initialZoom = getZoom(st.viewBox)]
  ELSE IF event.type = "zoom"
    THEN renderScene([st1 EXCEPT !.viewBox = zoomToPoint(st.viewBox,
                                   event.zoom, event.centerX, event.centerY)])
  ELSE IF event.type = "drag-end"
    THEN [st1 EXCEPT !.saved = TRUE]
  ELSE IF event.type = "drag"
    THEN dragged(st1, event.handle, event.delta)
  ELSE st1

\* An onUpdate that answers no event: the event is taken note of and
\* nothing else is done.
noted(st, objs, h, event) == [st EXCEPT !.emitted = event]

\* this.onUpdate(event): the callback the controller was constructed with,
\* named by onUpdate, is called.
emit(onUpdate, st, objs, h, event) ==
  IF onUpdate = "handleInteraction" THEN handleInteraction(st, objs, h, event)
  ELSE noted(st, objs, h, event)

\* A target of a pointer-down with its data-type, data-object-id,
\* data-object and data-index attributes.
Canvas == [type |-> "none", objectId |-> Null, object |-> Null, index |-> 0]

\* _handlePointerDown
handlePointerDown(st, objs, h, target, clientX, clientY, isMobile, onUpdate) ==
  LET handleType == target.type
      st0 == [st EXCEPT !.im.lastX = clientX, !.im.lastY = clientY]
  IN
  IF handleType # "none" /\ target.objectId # Null
    THEN emit(onUpdate, st0, objs, h,
           [type |-> "pointer-down-on-handle", handleType |-> handleType,
            objectId |-> target.objectId, index |-> target.index,
            clientX |-> clientX, clientY |-> clientY])
  ELSE IF target.object # Null
    THEN emit(onUpdate, st0, objs, h,
           [type |-> "pointer-down-on-object", objectId |-> target.object,
            handleType |-> handleType, hasObjectId |-> target.objectId # Null,
            index |-> target.index, clientX |-> clientX, clientY |-> clientY])
  ELSE IF ~isMobile
    THEN [st0 EXCEPT !.im = startPanning(st0.im, st.viewBox, clientX, clientY)]
    ELSE st0

\* A pan event whose window is not clamped.
panEventUnclamped(m, vb, clientX, clientY) ==
  LET dx == clientX - m.panStartX
      dy == clientY - m.panStartY
      scaleX == vb.width \div svgRect.width
      scaleY == vb.height \div svgRect.height
  IN [type |-> "pan",
      viewBox |-> [x |-> m.panStartViewBox.x - (dx * scaleX),
                   y |-> m.panStartViewBox.y - (dy * scaleY),
                   width |-> vb.width, height |-> vb.height]]

\* The pan event of a move to (clientX, clientY): the window is moved from
\* where it was when the pan began and clamped into the reference canvas.
panEvent(m, vb, clientX, clientY) ==
  LET dx == clientX - m.panStartX
      dy == clientY - m.panStartY
      scaleX == vb.width \div svgRect.width
      scaleY == vb.height \div svgRect.height
      newX == m.panStartViewBox.x - (dx * scaleX)
      newY == m.panStartViewBox.y - (dy * scaleY)
      maxX == Max(0, baseWidth - vb.width)
      maxY == Max(0, baseHeight - vb.height)
  IN [type |-> "pan",
      viewBox |-> [x |-> Max(0, Min(maxX, newX)), y |-> Max(0, Min(maxY, newY)),
                   width |-> vb.width, height |-> vb.height]]

\* _computeSvgDelta: a distance on the screen in the units of the view
\* window, by the one scale of preserveAspectRatio "meet".
computeSvgDelta(vb, dx, dy) ==
  LET scaleX == vb.width \div svgRect.width
      scaleY == vb.height \div svgRect.height
      uniformScale == Min(scaleX, scaleY)
  IN <<dx * uniformScale, dy * uniformScale>>

\* _toWorldDelta: divided by the camera scale baseZ / camera.z of the
\* controller's copy of the camera.
toWorldDelta(m, svgDelta) ==
  LET currentZ == IF m.camera.z # 0 THEN m.camera.z ELSE baseZ IN
  <<(svgDelta[1] * currentZ) \div baseZ, (svgDelta[2] * currentZ) \div baseZ>>

\* A _handlePointerMove that moves the dragged object by itself.
handlePointerMoveDragging(st, objs, h, clientX, clientY, onUpdate) ==
  IF st.im.isDragging /\ st.im.dragHandle # NoHandle
    THEN LET svgDelta == computeSvgDelta(st.viewBox, clientX - st.im.lastX,
                                         clientY - st.im.lastY)
             delta == toWorldDelta(st.im, svgDelta)
             answered == emit(onUpdate, dragged(st, st.im.dragHandle, delta),
                           objs, h,
                           [type |-> "drag", handle |-> st.im.dragHandle,
                            delta |-> delta])
         IN [answered EXCEPT !.im.lastX = clientX, !.im.lastY = clientY]
  ELSE IF st.im.isPanning /\ st.im.panStartViewBox # NoViewBox
    THEN emit(onUpdate, st, objs, h,
                           panEvent(st.im, st.viewBox, clientX, clientY))
    ELSE st

\* _handlePointerMove
handlePointerMove(st, objs, h, clientX, clientY, onUpdate) ==
  IF st.im.isDragging /\ st.im.dragHandle # NoHandle
    THEN LET svgDelta == computeSvgDelta(st.viewBox, clientX - st.im.lastX,
                                         clientY - st.im.lastY)
             answered == emit(onUpdate, st, objs, h,
                           [type |-> "drag", handle |-> st.im.dragHandle,
                            delta |-> toWorldDelta(st.im, svgDelta)])
         IN [answered EXCEPT !.im.lastX = clientX, !.im.lastY = clientY]
  ELSE IF st.im.isPanning /\ st.im.panStartViewBox # NoViewBox
    THEN emit(onUpdate, st, objs, h,
                           panEvent(st.im, st.viewBox, clientX, clientY))
    ELSE st

\* _handlePointerUp
handlePointerUp(st, objs, h, onUpdate) ==
  LET m1 == IF st.im.isPanning
              THEN [st.im EXCEPT !.isPanning = FALSE,
                                 !.panStartViewBox = NoViewBox,
                                 !.panStartX = 0, !.panStartY = 0]
              ELSE st.im
  IN IF m1.isDragging
       THEN emit(onUpdate, 
              [st EXCEPT !.im = [m1 EXCEPT !.isDragging = FALSE,
                                           !.dragHandle = NoHandle]],
              objs, h, [type |-> "drag-end"])
       ELSE [st EXCEPT !.im = m1]

\* _onMouseDown
onMouseDown(st, objs, h, target, p, onUpdate) ==
  handlePointerDown(st, objs, h, target, p[1], p[2], FALSE, onUpdate)

\* _onTouchStart, n = e.touches.length, t the first two touches
onTouchStart(st, objs, h, n, t, target, onUpdate) ==
  IF n = 0 THEN st
  ELSE IF n = 2 THEN
    emit(onUpdate, 
      [st EXCEPT !.im.isTwoFingerGesture = TRUE, !.im.gestureType = "none",
                 !.im.isDragging = FALSE, !.im.dragHandle = NoHandle,
                 !.im.isPanning = FALSE,
                 !.im.initialPinchDistance = Sqrt(SquaredDistance(t[1], t[2])),
                 !.im.initialPinchCenterX = Center(t)[1],
                 !.im.initialPinchCenterY = Center(t)[2]],
      objs, h, [type |-> "get-initial-zoom"])
  ELSE handlePointerDown(st, objs, h, target, t[1][1], t[1][2], TRUE,
                         onUpdate)

\* A decision that looks at the centre of the two touches only.
decideGestureCenterOnly(distanceChange, centerMoveSquared) ==
  IF centerMoveSquared > gestureThreshold * gestureThreshold THEN "pan"
  ELSE "none"

\* The gesture a two-finger move decides on; centerMove, a square root,
\* is compared by its square.
decideGesture(distanceChange, centerMoveSquared) ==
  IF distanceChange > gestureThreshold THEN "zoom"
  ELSE IF centerMoveSquared > gestureThreshold * gestureThreshold THEN "pan"
  ELSE "none"

\* The view-window coordinates of a place on the screen.
toViewX(vb, clientX) ==
  vb.x + ((clientX - svgRect.left) * vb.width) \div svgRect.width

toViewY(vb, clientY) ==
  vb.y + ((clientY - svgRect.top) * vb.height) \div svgRect.height

\* A zoom event about the centre the gesture began with.
zoomEventInitialCenter(m, vb, currentDistance, center) ==
  [type |-> "zoom",
   zoom |-> [num |-> m.initialZoom * currentDistance,
             den |-> m.initialPinchDistance],
   centerX |-> toViewX(vb, m.initialPinchCenterX),
   centerY |-> toViewY(vb, m.initialPinchCenterY)]

\* The zoom event of a two-finger move: the zoom is the fraction
\* initialZoom * currentDistance / initialPinchDistance; the point is
\* pinchCenterX, pinchCenterY, which the move has just set to the centre
\* of its touches, in the coordinates of the view window.
zoomEvent(m, vb, currentDistance, center) ==
  [type |-> "zoom",
   zoom |-> [num |-> m.initialZoom * currentDistance,
             den |-> m.initialPinchDistance],
   centerX |-> toViewX(vb, center[1]),
   centerY |-> toViewY(vb, center[2])]

\* _onTouchMove with the type of the gesture decided anew by every move.
onTouchMoveDecidingAnew(st, objs, h, n, t, onUpdate) ==
  IF n = 0 THEN st
  ELSE IF n = 2 /\ st.im.isTwoFingerGesture THEN
    LET currentDistance == Sqrt(SquaredDistance(t[1], t[2]))
        currentCenter == Center(t)
        m == st.im
        decided ==
          decideGesture(
            Abs(currentDistance - m.initialPinchDistance),
            SquaredDistance(
              <<m.initialPinchCenterX, m.initialPinchCenterY>>,
              currentCenter))
        m1 == IF m.gestureType # "pan" /\ decided = "pan"
                THEN startTwoFingerPanning([m EXCEPT !.gestureType = "pan"],
                       st.viewBox, currentCenter[1], currentCenter[2])
                ELSE [m EXCEPT !.gestureType = decided]
        st1 == [st EXCEPT !.im = m1]
    IN IF decided = "zoom"
         THEN emit(onUpdate, st1, objs, h,
                zoomEvent(m1, st.viewBox, currentDistance, currentCenter))
       ELSE IF decided = "pan"
         THEN emit(onUpdate, st1, objs, h,
                panEvent(m1, st.viewBox, currentCenter[1], currentCenter[2]))
         ELSE st1
  ELSE IF ~st.im.isTwoFingerGesture /\ n = 1
    THEN handlePointerMove(st, objs, h, t[1][1], t[1][2], onUpdate)
    ELSE st

\* _onTouchMove, n = e.touches.length, t the first two touches
onTouchMove(st, objs, h, n, t, onUpdate) ==
  IF n = 0 THEN st
  ELSE IF n = 2 /\ st.im.isTwoFingerGesture THEN
    LET currentDistance == Sqrt(SquaredDistance(t[1], t[2]))
        currentCenter == Center(t)
        m == st.im
        decided ==
          IF m.gestureType # "none" THEN m.gestureType
          ELSE decideGesture(
                 Abs(currentDistance - m.initialPinchDistance),
                 SquaredDistance(
                   <<m.initialPinchCenterX, m.initialPinchCenterY>>,
                   currentCenter))
        m1 == IF m.gestureType = "none" /\ decided = "pan"
                THEN startTwoFingerPanning([m EXCEPT !.gestureType = "pan"],
                       st.viewBox, currentCenter[1], currentCenter[2])
                ELSE [m EXCEPT !.gestureType = decided]
        st1 == [st EXCEPT !.im = m1]
    IN IF decided = "zoom"
         THEN emit(onUpdate, st1, objs, h,
                zoomEvent(m1, st.viewBox, currentDistance, currentCenter))
       ELSE IF decided = "pan"
         THEN emit(onUpdate, st1, objs, h,
                panEvent(m1, st.viewBox, currentCenter[1], currentCenter[2]))
         ELSE st1
  ELSE IF ~st.im.isTwoFingerGesture /\ n = 1
    THEN handlePointerMove(st, objs, h, t[1][1], t[1][2], onUpdate)
    ELSE st

\* _onTouchEnd (touchend and touchcancel), n = e.touches.length: the
\* touches that remain. panStartX and panStartY, which the code leaves as
\* they are and writes again before the next pan reads them, are cleared
\* with panStartViewBox as _handlePointerUp clears them.
onTouchEnd(st, objs, h, n, onUpdate) ==
  IF st.im.isTwoFingerGesture /\ n < 2 THEN
    LET wasPanning == st.im.isPanning /\ st.im.gestureType = "pan"
        m1 == [st.im EXCEPT !.isTwoFingerGesture = FALSE, !.gestureType = "none",
                            !.initialPinchDistance = 0, !.initialZoom = 1,
                            !.initialPinchCenterX = 0,
                            !.initialPinchCenterY = 0]
    IN [st EXCEPT !.im = IF wasPanning
                           THEN [m1 EXCEPT !.isPanning = FALSE,
                                           !.panStartViewBox = NoViewBox,
                                           !.panStartX = 0, !.panStartY = 0]
                           ELSE m1]
  ELSE IF st.im.isDragging
    THEN emit(onUpdate, st, objs, h, [type |-> "drag-end"])
    ELSE st

\* _onWheel: a wheel event over the svg element, inside telling whether
\* the target is the svg element or within it, deltaY the scroll. The
\* event is of type wheel-zoom, which App._handleInteraction has no answer
\* for.
onWheel(st, objs, h, inside, p, deltaY, onUpdate) ==
  LET isOverSvg ==
        \/ inside
        \/ /\ p[1] >= svgRect.left /\ p[1] <= svgRect.left + svgRect.width
           /\ p[2] >= svgRect.top /\ p[2] <= svgRect.top + svgRect.height
  IN IF ~isOverSvg THEN st
     ELSE emit(onUpdate, st, objs, h,
            [type |-> "wheel-zoom",
             delta |-> IF -deltaY > 0 THEN wheelZoomStep ELSE -wheelZoomStep,
             centerX |-> toViewX(st.viewBox, p[1]),
             centerY |-> toViewY(st.viewBox, p[2])])

----
Init ==
  /\ objects = <<>>
  /\ nodes = [r \in Refs |-> FreeNode]
  /\ assets = <<>>
  /\ scenario = [step |-> 0, ok |-> TRUE]
  /\ im = newInteractionManager
  /\ viewBox = [x |-> 0, y |-> 0, width |-> baseWidth, height |-> baseHeight]
  /\ selectedObject = Null
  /\ contacts = [touches |-> 0, mouse |-> FALSE]
  /\ emitted = NoEvent
  /\ watch = [armed |-> FALSE, quiet |-> FALSE, moves |-> 0, wrote |-> "none",
              renders |-> 0, drawn |-> Null, requested |-> Null,
              closed |-> FALSE]
  /\ engine = newRenderEngine
  /\ camera = newCamera(defaultZoom)
  /\ pm = newProjectManager(NoItem)
  /\ listeners = {AppListener}

\* The scripted scenario: add(A) object, add(G) group, moveToGroup(A, G),
\* removeFromGroup(A), from the empty scene graph. A is the first object
\* created and G the second; any other call leaves the script (-1).
\* `ok` is what the call of that step returned.
ScenarioStep(sc, op, a, b, res, h) ==
  LET step ==
        IF sc.step = 0 /\ op = "add" /\ res.ok /\ ~res.nodes[res.ref].group THEN 1
        ELSE IF sc.step = 1 /\ op = "add" /\ res.ok /\ res.nodes[res.ref].group
          THEN 2
        ELSE IF sc.step = 2 /\ op = "moveToGroup" /\ a = h[1].id /\ b = h[2].id
          THEN 3
        ELSE IF sc.step = 3 /\ op = "removeFromGroup" /\ a = h[1].id THEN 4
        ELSE -1
  IN [step |-> step, ok |-> step # -1 /\ res.ok]

\* The nodes reachable from the list objs through children.
RECURSIVE ReachFrom(_, _, _)
ReachFrom(h, S, n) ==
  LET S2 == S \cup UNION {Range(h[r].children) : r \in S} IN
  IF n = 0 \/ S2 = S THEN S ELSE ReachFrom(h, S2, n - 1)

Reachable(objs, h) == ReachFrom(h, Range(objs), MaxNodes)

\* An object nothing refers to any more: garbage, collected by the runtime.
DeadNode ==
  [id |-> -1, group |-> FALSE, children |-> <<>>, name |-> <<>>,
   locked |-> FALSE, offset |-> <<0, 0>>, rotate |-> 0, anchor |-> <<0, 0>>]

Collect(objs, h) ==
  LET live == Reachable(objs, h) IN
  [r \in Refs |-> IF h[r].id = Null \/ r \in live THEN h[r] ELSE DeadNode]

\* One call: its effect on the heap and the list, CollectionManager.save()
\* on the paths that reach it (the project's assets are replaced and the
\* notification reloads objects from them), and the step of the scenario.
Store(op, a, b, res) ==
  /\ assets' = IF res.saved THEN updateCurrentAssets(res.objects) ELSE assets
  /\ pm' = announced(res, pm, listeners).pm
  /\ UNCHANGED listeners
  /\ objects' = IF res.saved THEN loadFromProject(assets') ELSE res.objects
  /\ nodes' = Collect(res.objects \o Shelved(pm), res.nodes)
  /\ scenario' = ScenarioStep(scenario, op, a, b, res, nodes)

\* A call made on the CollectionManager with the canvas left alone.
Call(op, a, b, res) == Store(op, a, b, res) /\ UNCHANGED gestureVars

\* The ids a caller may give a new object: a new one, or one some object
\* already has.
AddIds ==
  {generateId(nodes)} \cup {nodes[r].id : r \in Reachable(objects, nodes)}

AddNew ==
  /\ Cardinality(Allocated(nodes)) < MaxTreeNodes
  /\ \E g \in BOOLEAN :
       Call("add", generateId(nodes), IF g THEN 1 ELSE 0,
            add(objects, nodes, generateId(nodes), g))

AddAny ==
  /\ HasFree(nodes)
  /\ \E g \in BOOLEAN, id \in AddIds :
       Call("add", id, IF g THEN 1 ELSE 0, add(objects, nodes, id, g))

AddAnyTree ==
  /\ Cardinality(Allocated(nodes)) < MaxTreeNodes
  /\ \E g \in BOOLEAN, id \in AddIds :
       Call("add", id, IF g THEN 1 ELSE 0, add(objects, nodes, id, g))

Update ==
  \E id \in AnyIds, updates \in Updates :
    Call("update", id, Null, update(objects, nodes, id, updates))

Remove ==
  \E id \in AnyIds : Call("remove", id, Null, remove(objects, nodes, id))

Clone ==
  \E id \in Ids :
    /\ LET obj == getById(objects, nodes, id) IN
         obj # Null =>
           CopySize(nodes, obj) <= Cardinality(Refs \ Allocated(nodes))
    /\ Call("clone", id, Null, clone(objects, nodes, id))

MoveToGroup ==
  \E objectId \in AnyIds, groupId \in AnyIds :
    Call("moveToGroup", objectId, groupId,
         moveToGroup(objects, nodes, objectId, groupId))

RemoveFromGroup ==
  \E objectId \in AnyIds :
    Call("removeFromGroup", objectId, Null,
         removeFromGroup(objects, nodes, objectId))

\* The callback of the pending timer or forceSave has run: the state it
\* leaves, and whether storage was written.
Persisted(w, kind, fails) ==
  /\ pm' = w.pm
  /\ objects' = w.objects
  /\ nodes' = Collect(w.objects \o Shelved(w.pm), w.nodes)
  /\ assets' = w.assets
  /\ watch' = [watch EXCEPT !.wrote = IF w.wrote THEN kind
                                      ELSE IF w.failed THEN "failed"
                                      ELSE "none"]
  /\ UNCHANGED <<scenario, listeners, im, viewBox, selectedObject, contacts,
                 emitted, camera, engine>>

\* The oldest pending timer fires: () => this.save(). The write to storage
\* succeeds or fails.
TimerFires ==
  /\ pm.timers # <<>>
  /\ \E fails \in BOOLEAN :
       Persisted(timerFired(objects, nodes, assets, pm, fails), "timer", fails)

\* projectManager.forceSave()
ForceSave ==
  \E fails \in BOOLEAN :
    Persisted(Written(objects, nodes, assets,
                      forceSave(Begun(pm), serialize(assets, nodes), fails)),
              "forced", fails)

\* projectManager.createProject(title, setAsCurrent)
CreateProject ==
  /\ Len(pm.projects) < MaxProjects
  /\ \E setAsCurrent \in BOOLEAN :
       LET res == createProject(Begun(pm), assets, setAsCurrent) IN
       Persisted(Written(objects, nodes, res.assets, res.call), "project",
                 FALSE)

\* projectManager.loadProject(id)
LoadProject ==
  \E i \in 1..MaxProjects, fails \in BOOLEAN :
    LET res == loadProject(Begun(pm), assets, nodes, i, fails) IN
    Persisted(Written(objects, nodes, res.assets, res.call), "project", fails)

\* projectManager.deleteProject(id)
DeleteProject ==
  \E i \in 1..MaxProjects :
    LET res == deleteProject(Begun(pm), assets, i) IN
    Persisted(Written(objects, nodes, res.assets, res.call), "project", FALSE)

\* collectionManager.subscribe(callback), and the function it returned.
Subscribe ==
  \E l \in Listeners :
    /\ listeners' = listeners \cup {l}
    /\ UNCHANGED <<objects, nodes, assets, scenario, pm, gestureVars>>

Unsubscribe ==
  \E l \in Listeners :
    /\ listeners' = listeners \ {l}
    /\ UNCHANGED <<objects, nodes, assets, scenario, pm, gestureVars>>

\* The count of the calls of render() starts again after a display
\* refresh.
Since(w) ==
  IF w.closed THEN [w EXCEPT !.renders = 0, !.drawn = Null, !.closed = FALSE]
  ELSE w

\* What a step of the engine leaves: r.drawn is the scene render() was
\* called with.
Rendered(r, w) ==
  /\ r.drawn # Null => w.renders < MaxRenders
  /\ engine' = r.engine
  /\ watch' = IF r.drawn # Null
                THEN [w EXCEPT !.renders = @ + 1, !.drawn = r.drawn]
                ELSE w
  /\ UNCHANGED <<objects, nodes, assets, scenario, pm, listeners, im, viewBox,
                 selectedObject, contacts, emitted, camera>>

\* svgRenderer.requestRender(scene)
RequestRender ==
  \E scene \in Scenes :
    Rendered(requestRender(engine, scene),
             [Since(watch) EXCEPT !.requested = scene])

\* svgRenderer.resize(width, height)
Resize == Rendered([engine |-> resize(engine), drawn |-> Null], Since(watch))

\* svgRenderer.stop()
Stop == Rendered([engine |-> stop(engine), drawn |-> Null], Since(watch))

\* The display is refreshed: the callback handed to requestAnimationFrame,
\* if there is one, runs.
Tick ==
  Rendered(IF engine.frameId # Null THEN renderFrame(engine)
           ELSE [engine |-> engine, drawn |-> Null],
           [Since(watch) EXCEPT !.closed = TRUE])

\* The arguments the zoom of the camera is called with: numbers inside
\* and outside the range of the zoom, 0 and NaN.
ZoomArgs == {NaN, -100, -50, 0, 200, 2000, 2500}
Amounts == {NaN, -7, 0, 7, 50, 3000}
Deltas == {NaN, -1, 1, 600}

\* A call on the camera.
Zoomed(c) ==
  /\ camera' = c
  /\ UNCHANGED <<objects, nodes, assets, scenario, pm, listeners, im, viewBox,
                 selectedObject, contacts, emitted, watch, engine>>

SetZoom == \E z \in ZoomArgs : Zoomed(setZoom(camera, z))
ZoomIn == \E amount \in Amounts : Zoomed(zoomIn(camera, amount))
ZoomOut == \E amount \in Amounts : Zoomed(zoomOut(camera, amount))
ZoomWheel == \E delta \in Deltas : Zoomed(zoomWheel(camera, delta))

\* The places and the rotations a node is given.
Offsets == {<<0, 0>>, <<3, 5>>}
Rotations == {0, 90}

\* collectionManager.update(id, {offset, rotate})
Place ==
  \E id \in Ids, o \in Offsets, rotate \in Rotations :
    Call("update", id, Null,
         update(objects, nodes, id,
                [isObject |-> TRUE,
                 fields |-> [offset |-> o, rotate |-> rotate]]))

\* Every operation that changes the shape of the forest, add with any id.
Next == AddAny \/ Remove \/ Clone \/ MoveToGroup \/ RemoveFromGroup

Spec == Init /\ [][Next]_vars

\* add with new childless nodes, moveToGroup, removeFromGroup.
NextTree == AddNew \/ MoveToGroup \/ RemoveFromGroup

SpecTree == Init /\ [][NextTree]_vars

\* add with any id, remove, moveToGroup, removeFromGroup (no clone).
NextEdit == AddAnyTree \/ Remove \/ MoveToGroup \/ RemoveFromGroup

SpecEdit == Init /\ [][NextEdit]_vars

\* The operations of SpecEdit and update.
NextUpdate == AddAnyTree \/ Update \/ MoveToGroup \/ RemoveFromGroup

SpecUpdate == Init /\ [][NextUpdate]_vars

\* The operations of SpecTree and remove, with callbacks that subscribe
\* and unsubscribe.
NextNotify ==
  \/ AddNew \/ Remove \/ MoveToGroup \/ RemoveFromGroup
  \/ Subscribe \/ Unsubscribe

SpecNotify == Init /\ [][NextNotify]_vars

\* Objects are added and removed while timers fire, saves are forced and
\* writes to storage fail.
NextSave == AddNew \/ Remove \/ TimerFires \/ ForceSave

SpecSave == Init /\ [][NextSave]_vars

\* Nodes are added with any id, moved into groups, placed and rotated.
NextPlace == AddAnyTree \/ MoveToGroup \/ Place

SpecPlace == Init /\ [][NextPlace]_vars

\* The zoom of the camera is set and stepped.
NextCamera == SetZoom \/ ZoomIn \/ ZoomOut \/ ZoomWheel

SpecCamera == Init /\ [][NextCamera]_vars

\* Scenes are handed to the renderer between the refreshes of the display;
\* the loop is stopped and started again.
NextRender == RequestRender \/ Resize \/ Stop \/ Tick

SpecRender == Init /\ [][NextRender]_vars

\* What the renderer draws: for every node a body with data-object only
\* and a body that is also an origin handle (a filled path or a group's
\* hit area); for the selected node its handles.
Targets(objs, h, selected) ==
  {Canvas}
  \cup {[type |-> "none", objectId |-> Null, object |-> h[r].id, index |-> 0] :
          r \in Reachable(objs, h)}
  \cup {[type |-> "origin", objectId |-> h[r].id, object |-> h[r].id,
         index |-> 0] : r \in Reachable(objs, h)}
  \cup {[type |-> t, objectId |-> h[r].id, object |-> Null, index |-> 0] :
          t \in HandleTypes, r \in Reachable(objs, h) \cap {selected}}

\* App._createPlaceholderObject: a new object is added, the controller is
\* reset and the object selected.
AddShape ==
  /\ Cardinality(Allocated(nodes)) < MaxShapes
  /\ LET res == add(objects, nodes, generateId(nodes), FALSE) IN
       /\ Store("add", generateId(nodes), 0, res)
       /\ selectedObject' = res.ref
  /\ im' = Settled(reset(im))
  /\ emitted' = NoEvent
  /\ UNCHANGED <<viewBox, contacts, watch, camera, engine>>

\* App._updateSelectedObject({locked: b})
UpdateSelected ==
  /\ selectedObject # Null
  /\ \E b \in BOOLEAN :
       LET res == update(objects, nodes, nodes[selectedObject].id,
                         [isObject |-> TRUE, fields |-> [locked |-> b]])
       IN /\ Store("update", nodes[selectedObject].id, Null, res)
          /\ selectedObject' = IF res.ref # Null THEN res.ref ELSE selectedObject
  /\ emitted' = NoEvent
  /\ UNCHANGED <<im, viewBox, contacts, watch, camera, engine>>

\* App._createPlaceholderGroup: a new group is added and selected.
CreateGroup ==
  /\ Cardinality(Allocated(nodes)) < MaxTreeNodes
  /\ LET res == add(objects, nodes, generateId(nodes), TRUE) IN
       /\ Store("add", generateId(nodes), 1, res)
       /\ selectedObject' = res.ref
  /\ UNCHANGED <<im, viewBox, contacts, emitted, watch, camera, engine>>

\* A click on an item of the collection panel, which lists every node of
\* the scene graph: onSelect(obj), App._selectObject(obj).
SelectInPanel ==
  /\ \E r \in Reachable(objects, nodes) : selectedObject' = r
  /\ UNCHANGED <<objects, nodes, assets, scenario, pm, listeners, im, viewBox,
                 contacts, emitted, watch, camera, engine>>

\* App._deleteObject that leaves the selection as it is.
deleteObjectKeeping(objs, h, selected, id) ==
  [res |-> remove(objs, h, id), selected |-> selected]

\* App._deleteObject(id): nothing more if remove(id) answers false; if the
\* selected object has the id, the first object that remains is selected,
\* or nothing.
deleteObject(objs, h, selected, id) ==
  LET res == remove(objs, h, id) IN
  [res |-> res,
   selected |-> IF ~res.ok THEN selected
                ELSE IF selected # Null /\ h[selected].id = id
                  THEN IF res.objects = <<>> THEN Null ELSE res.objects[1]
                  ELSE selected]

\* The delete button of the collection panel: onDelete(selectedId), with
\* the id the panel was told by _selectObject and _refreshCollectionPanel,
\* that of the selected object.
DeleteSelected ==
  /\ selectedObject # Null
  /\ LET id == nodes[selectedObject].id
         done == deleteObject(objects, nodes, selectedObject, id)
     IN /\ Store("remove", id, Null, done.res)
        /\ selectedObject' = done.selected
  /\ UNCHANGED <<im, viewBox, contacts, emitted, watch, camera, engine>>

\* App._assignToGroup: an item of the panel is dropped on a group, or the
\* dialog assigns the selected object to a group or to none.
AssignToGroup ==
  /\ \/ \E a \in Reachable(objects, nodes), g \in Reachable(objects, nodes) :
          /\ nodes[g].group
          /\ nodes[a].id # nodes[g].id \/ a = selectedObject
          /\ Store("moveToGroup", nodes[a].id, nodes[g].id,
                   moveToGroup(objects, nodes, nodes[a].id, nodes[g].id))
     \/ /\ selectedObject # Null
        /\ \E g \in Reachable(objects, nodes) : nodes[g].group
        /\ Store("removeFromGroup", nodes[selectedObject].id, Null,
                 removeFromGroup(objects, nodes, nodes[selectedObject].id))
  /\ UNCHANGED gestureVars

\* The controller and what the App holds, as a handler finds them.
Before ==
  [im |-> im, viewBox |-> viewBox, selectedObject |-> selectedObject,
   camera |-> camera, objects |-> objects, nodes |-> nodes, saved |-> FALSE,
   emitted |-> NoEvent]

\* What is kept of an event: its type, and the view window of a pan.
Observed(event) == IF event.type = "pan" THEN event ELSE [type |-> event.type]

\* One handler has run: st is what it left, c the contacts after the event.
\* What the App has written through the CollectionManager is stored as a
\* call of update is, and leaves the scripted scenario.
Handled(st, c, w) ==
  LET moves == w.moves + IF st.nodes # nodes THEN 1 ELSE 0 IN
  /\ moves <= MaxDrags
  /\ im' = Settled(st.im)
  /\ viewBox' = st.viewBox
  /\ selectedObject' = st.selectedObject
  /\ camera' = st.camera
  /\ emitted' = Observed(st.emitted)
  /\ contacts' = c
  /\ watch' = [w EXCEPT !.moves = moves]
  /\ assets' = IF st.saved THEN updateCurrentAssets(st.objects) ELSE assets
  /\ pm' = announced(st, pm, listeners).pm
  /\ UNCHANGED <<listeners, engine>>
  /\ objects' = IF st.saved THEN loadFromProject(assets') ELSE st.objects
  /\ nodes' = Collect(st.objects \o Shelved(pm), st.nodes)
  /\ scenario' = IF st.saved THEN [step |-> -1, ok |-> FALSE] ELSE scenario

IsHandle(target) == target.type # "none" /\ target.objectId # Null

Released(c) == c.touches = 0 /\ ~c.mouse

MouseDown ==
  /\ ~contacts.mouse
  /\ \E target \in Targets(objects, nodes, selectedObject), p \in Points :
       Handled(onMouseDown(Before, objects, nodes, target, p,
                           "handleInteraction"),
               [contacts EXCEPT !.mouse = TRUE],
               [watch EXCEPT !.armed = watch.armed \/ IsHandle(target),
                             !.quiet = FALSE])

MouseMove ==
  \E p \in Points :
    Handled(handlePointerMove(Before, objects, nodes, p[1], p[2],
                              "handleInteraction"),
            contacts, watch)

\* mouseup, and mouseleave with or without a button held
MouseUp ==
  LET c == [contacts EXCEPT !.mouse = FALSE] IN
  Handled(handlePointerUp(Before, objects, nodes, "handleInteraction"), c,
          [watch EXCEPT !.armed = watch.armed /\ ~Released(c)])

\* The first two touches of an event with n touches.
Touches(n) == IF n >= 2 THEN TouchPairs ELSE {<<p, p>> : p \in Points}

\* wheel: the wheel is turned one way or the other.
Wheel ==
  \E inside \in BOOLEAN, p \in Points, deltaY \in {-1, 1} :
    Handled(onWheel(Before, objects, nodes, inside, p, deltaY,
                    "handleInteraction"),
            contacts, watch)

\* touchstart: one finger or two fingers at once come down.
TouchStart ==
  \E k \in 1..2 :
    /\ contacts.touches + k <= MaxTouches
    /\ LET n == contacts.touches + k IN
       \E t \in Touches(n), target \in Targets(objects, nodes, selectedObject) :
         Handled(onTouchStart(Before, objects, nodes, n, t, target,
                              "handleInteraction"),
                 [contacts EXCEPT !.touches = n],
                 [watch EXCEPT
                    !.armed = watch.armed \/ (n # 2 /\ IsHandle(target)),
                    !.quiet = FALSE])

TouchMove ==
  /\ contacts.touches > 0
  /\ \E t \in Touches(contacts.touches) :
       Handled(onTouchMove(Before, objects, nodes, contacts.touches, t,
                           "handleInteraction"),
               contacts, watch)

\* touchend, touchcancel: one or more fingers are lifted.
TouchEnd ==
  \E n \in 0..(contacts.touches - 1) :
    LET c == [contacts EXCEPT !.touches = n] IN
    Handled(onTouchEnd(Before, objects, nodes, n, "handleInteraction"), c,
            [watch EXCEPT
               !.armed = watch.armed /\ ~Released(c),
               !.quiet = watch.quiet \/ (im.isTwoFingerGesture /\ n < 2)])

\* The first object of the canvas is created.
AddFirstShape == objects = <<>> /\ AddShape

\* The editor with one object on its canvas, which is locked and
\* unlocked, at the view window it starts with: the mouse acts on what is
\* drawn, fingers are put down and lifted.
NextGesture ==
  \/ AddFirstShape \/ UpdateSelected
  \/ MouseDown \/ MouseMove \/ MouseUp
  \/ TouchStart \/ TouchEnd

SpecGesture == Init /\ [][NextGesture]_vars

\* The editor with one object on its canvas and a mouse.
NextMouse ==
  AddFirstShape \/ MouseDown \/ MouseMove \/ MouseUp \/ Wheel

SpecMouse == Init /\ [][NextMouse]_vars

\* Objects are created and locked, the mouse and the fingers are put down
\* on what is drawn and lifted again.
NextSelect ==
  \/ AddShape \/ UpdateSelected
  \/ MouseDown \/ MouseUp \/ TouchStart \/ TouchEnd

SpecSelect == Init /\ [][NextSelect]_vars

\* The mouse and the fingers on a canvas with nothing drawn on it.
NextCanvas ==
  MouseDown \/ MouseMove \/ MouseUp \/ TouchStart \/ TouchMove \/ TouchEnd

SpecCanvas == Init /\ [][NextCanvas]_vars


----
\* The places a node can sit in: <<0, i>> is the i-th entry of the top-level
\* list, <<g, i>> the i-th child of the group g of the forest.
Positions(objs, h) ==
  {<<0, i>> : i \in 1..Len(objs)} \cup
  UNION {{<<g, i>> : i \in 1..Len(h[g].children)} : g \in Reachable(objs, h)}

NodeAt(objs, h, p) == IF p[1] = 0 THEN objs[p[2]] ELSE h[p[1]].children[p[2]]

\* The nodes below r.
Descendants(h, r) == ReachFrom(h, Range(h[r].children), MaxNodes)

Acyclic(h) == \A r \in Refs : r \notin Descendants(h, r)

\* C1: after any sequence of add (new childless nodes), moveToGroup and
\* removeFromGroup calls from the empty scene graph, no node is reachable
\* from itself through children. The heap is looked at as every call leaves
\* it, before unreferenced objects are collected, so a cycle cut off from
\* the top-level list counts too.
C1_Acyclic ==
  /\ Acyclic(nodes)
  /\ \A a \in Ids, b \in Ids :
       /\ Acyclic(moveToGroup(objects, nodes, a, b).nodes)
       /\ Acyclic(removeFromGroup(objects, nodes, a).nodes)
  /\ HasFree(nodes) =>
       \A g \in BOOLEAN : Acyclic(add(objects, nodes, generateId(nodes), g).nodes)

\* C1 witness: a group nested in a group that holds a node of its own, the
\* shape a move of the outer group below the inner one would close.
C1_Witness ==
  \E g \in Range(objects), k \in Refs, r \in Refs :
    /\ k \in Range(nodes[g].children)
    /\ r \in Range(nodes[k].children)
    /\ nodes[k].group

\* C2: every id occurs at most once in the whole forest.
C2_IdsUnique ==
  \A p \in Positions(objects, nodes), q \in Positions(objects, nodes) :
    nodes[NodeAt(objects, nodes, p)].id = nodes[NodeAt(objects, nodes, q)].id
      => p = q

Without(s, r) == SelectSeq(s, LAMBDA x : x # r)

\* C3: whenever moveToGroup returns false the forest is as before the call:
\* the top-level order and every children list are unchanged, and nothing
\* is saved.
C3_RejectedMoveNoOp ==
  \A a \in Ids, b \in Ids :
    LET res == moveToGroup(objects, nodes, a, b) IN
      ~res.ok => /\ res.objects = objects
                 /\ res.nodes = nodes
                 /\ ~res.saved

\* C3 witness: a move the cycle check rejects: both nodes exist, the target
\* is a group other than the object, and the object's id is found below it.
C3_Witness ==
  \E a \in Ids, b \in Ids :
    /\ a # b
    /\ findInGroups(objects, nodes, a) # Null
    /\ getById(objects, nodes, b) # Null
    /\ IsGroup(nodes, getById(objects, nodes, b))
    /\ isDescendantOf(objects, nodes, b, a)
    /\ ~moveToGroup(objects, nodes, a, b).ok

\* C4: moveToGroup returns true whenever both ids name nodes of the tree
\* (top level or nested), the target is a group, the ids differ and the
\* target is not in the subtree of the object.
C4_MoveSucceeds ==
  \A a \in Ids, b \in Ids :
    LET obj == findInGroups(objects, nodes, a)
        grp == findInGroups(objects, nodes, b)
    IN (/\ obj # Null
        /\ grp # Null
        /\ IsGroup(nodes, grp)
        /\ a # b
        /\ grp \notin Descendants(nodes, obj))
       => moveToGroup(objects, nodes, a, b).ok

\* C5: when moveToGroup returns true the moved node is the last child of
\* the target group, sits nowhere else, and the order of all other nodes
\* (in the top-level list and in every children list) is unchanged.
C5_MovedToEnd ==
  \A a \in Ids, b \in Ids :
    LET res == moveToGroup(objects, nodes, a, b)
        obj == findInGroups(objects, nodes, a)
        group == getById(objects, nodes, b)
    IN res.ok =>
         /\ res.nodes[group].children # <<>>
         /\ res.nodes[group].children[Len(res.nodes[group].children)] = obj
         /\ Cardinality({p \in Positions(res.objects, res.nodes) :
                           NodeAt(res.objects, res.nodes, p) = obj}) = 1
         /\ Without(res.objects, obj) = Without(objects, obj)
         /\ \A g \in Refs :
              Without(res.nodes[g].children, obj) = Without(nodes[g].children, obj)

\* C7: add fails and leaves the tree unchanged whenever the id of the new
\* node is the id of a node of the tree, at top level or nested.
C7_AddRejectsDuplicate ==
  HasFree(nodes) =>
    \A r \in Reachable(objects, nodes), g \in BOOLEAN :
      LET res == add(objects, nodes, nodes[r].id, g) IN
        /\ ~res.ok
        /\ res.objects = objects
        /\ res.nodes = nodes

\* C8: findInGroups(id) returns the very node that has the id, wherever it
\* sits; the name update(id, ..) writes is the name of the node
\* findInGroups(id) returns afterwards, a node of the forest; both return
\* null when no node of the forest has the id.
C8_LiveNode ==
  /\ \A r \in Reachable(objects, nodes) :
       findInGroups(objects, nodes, nodes[r].id) = r
  /\ \A id \in Ids, v \in 1..MaxName :
       LET res == update(objects, nodes, id,
                         [isObject |-> TRUE, fields |-> [name |-> <<v>>]])
           found == findInGroups(res.objects, res.nodes, id)
       IN IF \E r \in Reachable(objects, nodes) : nodes[r].id = id
            THEN /\ res.ref # Null
                 /\ found = res.ref
                 /\ res.nodes[found].name = <<v>>
                 /\ found \in Reachable(res.objects, res.nodes)
            ELSE /\ res.ref = Null
                 /\ findInGroups(objects, nodes, id) = Null
                 /\ res.nodes = nodes

\* C9: from the empty scene graph, add(A) object, add(G) group,
\* moveToGroup(A, G) returns true, the top-level list has length 1 and
\* findInGroups(A) is A; removeFromGroup(A) then returns true and the
\* top-level list has length 2.
C9_Scenario ==
  /\ scenario.step = 3 =>
       /\ scenario.ok
       /\ Len(objects) = 1
       /\ findInGroups(objects, nodes, nodes[1].id) = 1
  /\ scenario.step = 4 =>
       /\ scenario.ok
       /\ Len(objects) = 2

\* C9 witness: the scenario has been run to its end.
C9_Witness == scenario.step = 4

\* C10: remove(id) returns true exactly when a node with the id is in the
\* top-level list, and then that node and its subtree are gone from the
\* forest and nothing else changes; otherwise (the id is unknown or only
\* inside a group) it returns false and the tree is unchanged.
C10_RemoveTopLevelOnly ==
  \A id \in Ids :
    LET res == remove(objects, nodes, id)
        top == getById(objects, nodes, id)
    IN /\ res.ok <=> top # Null
       /\ res.ok =>
            /\ res.objects = Without(objects, top)
            /\ res.nodes = nodes
            /\ ({top} \cup Descendants(nodes, top))
                 \cap Reachable(res.objects, res.nodes) = {}
       /\ ~res.ok => res.objects = objects /\ res.nodes = nodes

\* C10 witness: a top-level group with a child, whose id remove() does not
\* find while the group's id it does.
C10_Witness ==
  \E g \in Range(objects), c \in Refs :
    /\ c \in Range(nodes[g].children)
    /\ ~remove(objects, nodes, nodes[c].id).ok
    /\ remove(objects, nodes, nodes[g].id).ok

\* The places of the forest where the node r sits.
PlacesOf(objs, h, r) == {p \in Positions(objs, h) : NodeAt(objs, h, p) = r}

\* C11: removeFromGroup called with the id of a node nested at any depth
\* returns true and leaves that node in the top-level list exactly once and
\* in no group's children; called with the id of a top-level node it returns
\* true and leaves the tree unchanged; called with an id no node has it
\* returns false and changes nothing.
C11_RemoveFromGroup ==
  /\ \A r \in Reachable(objects, nodes) :
       LET res == removeFromGroup(objects, nodes, nodes[r].id) IN
       /\ res.ok
       /\ r \notin Range(objects) =>
            \E i \in 1..Len(res.objects) :
              PlacesOf(res.objects, res.nodes, r) = {<<0, i>>}
       /\ r \in Range(objects) =>
            res.objects = objects /\ res.nodes = nodes
  /\ \A id \in Ids :
       findInGroups(objects, nodes, id) = Null =>
         LET res == removeFromGroup(objects, nodes, id) IN
         ~res.ok /\ res.objects = objects /\ res.nodes = nodes

\* C11 witness: a node two groups deep, which removeFromGroup brings to the
\* top level, next to an id no node has.
C11_Witness ==
  \E g \in Range(objects), k \in Refs, r \in Refs :
    /\ k \in Range(nodes[g].children)
    /\ r \in Range(nodes[k].children)
    /\ r \in Range(removeFromGroup(objects, nodes, nodes[r].id).objects)
    /\ \E id \in Ids : ~removeFromGroup(objects, nodes, id).ok

\* A call that returned null or false: nothing thrown, nothing changed,
\* nothing saved.
Rejected(res) ==
  /\ ~res.ok /\ ~res.raised /\ ~res.saved
  /\ res.objects = objects /\ res.nodes = nodes

\* C12: with an id that does not match the id-safe pattern, getById returns
\* null and update (whatever the updates argument is), remove, moveToGroup
\* (the id in either place) and removeFromGroup return null or false,
\* throw nothing and leave the tree as it is.
C12_InvalidIdRejected ==
  \A id \in BadIds :
    /\ getById(objects, nodes, id) = Null
    /\ \A updates \in Updates : Rejected(update(objects, nodes, id, updates))
    /\ Rejected(remove(objects, nodes, id))
    /\ \A other \in AnyIds :
         /\ Rejected(moveToGroup(objects, nodes, id, other))
         /\ Rejected(moveToGroup(objects, nodes, other, id))
    /\ Rejected(removeFromGroup(objects, nodes, id))

\* C12 witness: a forest with a nested node in which update with a valid id
\* throws on an updates argument that is no object, where with a malformed
\* id it returns null.
C12_Witness ==
  \E g \in Range(objects), r \in Refs, updates \in Updates, id \in BadIds :
    /\ r \in Range(nodes[g].children)
    /\ ~isObject(updates)
    /\ update(objects, nodes, nodes[r].id, updates).raised
    /\ ~update(objects, nodes, id, updates).raised

\* The controller between pointer gestures.
Idle(m) ==
  /\ ~m.isDragging /\ ~m.isPanning /\ ~m.isTwoFingerGesture
  /\ m.dragHandle = NoHandle

\* The change of the distance of two touches from the distance the gesture
\* began with, and the square of the way their centre has moved.
DistanceChange(m, t) ==
  Abs(Sqrt(SquaredDistance(t[1], t[2])) - m.initialPinchDistance)

CenterMoveSquared(m, t) ==
  SquaredDistance(<<m.initialPinchCenterX, m.initialPinchCenterY>>, Center(t))

\* C13: a two-finger move made while the gesture is undecided decides on
\* zoom when the distance of the fingers has changed by more than the
\* threshold and their centre has not moved by more than it, and on pan
\* when the centre has moved by more than the threshold and the distance
\* has not changed by more than it; a gesture decided as zoom is not made a
\* pan by a later move and emits no pan event, and the other way round.
C13_GestureDecision ==
  (im.isTwoFingerGesture /\ contacts.touches = 2) =>
    \A t \in TouchPairs :
      LET res == onTouchMove(Before, objects, nodes, 2, t, "handleInteraction")
          far == DistanceChange(im, t) > gestureThreshold
          moved == CenterMoveSquared(im, t) > gestureThreshold * gestureThreshold
      IN /\ (im.gestureType = "none" /\ far /\ ~moved) =>
              res.im.gestureType = "zoom" /\ res.emitted.type = "zoom"
         /\ (im.gestureType = "none" /\ moved /\ ~far) =>
              res.im.gestureType = "pan" /\ res.emitted.type = "pan"
         /\ im.gestureType = "zoom" =>
              res.im.gestureType = "zoom" /\ res.emitted.type = "zoom"
         /\ im.gestureType = "pan" =>
              res.im.gestureType = "pan" /\ res.emitted.type = "pan"

\* C13 witness: an undecided two-finger gesture on a zoomed-in canvas that
\* one move would make a zoom and another move a pan.
C13_Witness ==
  /\ im.isTwoFingerGesture /\ im.gestureType = "none" /\ contacts.touches = 2
  /\ viewBox.width < baseWidth
  /\ \E t \in TouchPairs :
       /\ DistanceChange(im, t) > gestureThreshold
       /\ CenterMoveSquared(im, t) <= gestureThreshold * gestureThreshold
       /\ onTouchMove(Before, objects, nodes, 2, t, "handleInteraction").im.gestureType = "zoom"
  /\ \E t \in TouchPairs :
       /\ DistanceChange(im, t) <= gestureThreshold
       /\ CenterMoveSquared(im, t) > gestureThreshold * gestureThreshold
       /\ onTouchMove(Before, objects, nodes, 2, t, "handleInteraction").im.gestureType = "pan"

\* C14: whenever no finger is on the canvas and no mouse button is held,
\* the controller is idle: not dragging, not panning, in no two-finger
\* gesture and without a drag handle.
C14_ReleasedIsIdle == Released(contacts) => Idle(im)

\* C15: a drag event is emitted only while a handle has been pressed and
\* not all contacts have been released since.
C15_DragOnlyWhilePressed == emitted.type = "drag" => watch.armed

\* C16: once a two-finger gesture has ended because fewer than two fingers
\* remained, and until the next pointer-down, no move of the finger that
\* remains emits a drag, pan or zoom event.
C16_QuietAfterTwoFingers ==
  (watch.quiet /\ contacts.touches = 1) =>
    \A p \in Points :
      onTouchMove(Before, objects, nodes, 1, <<p, p>>, "handleInteraction").emitted.type
        \notin {"drag", "pan", "zoom"}

\* A pointer-down of the mouse, or of a single finger, at p on the empty
\* canvas.
MouseOnCanvas(p) == onMouseDown(Before, objects, nodes, Canvas, p, "handleInteraction")

TouchOnCanvas(p) == onTouchStart(Before, objects, nodes, 1, <<p, p>>, Canvas,
               "handleInteraction")

\* No move of the pointer emits a pan event.
NoPanOnMove(st) ==
  \A q \in Points :
    /\ handlePointerMove(st, objects, nodes, q[1], q[2],
                         "handleInteraction").emitted.type # "pan"
    /\ onTouchMove(st, objects, nodes, 1, <<q, q>>,
                   "handleInteraction").emitted.type # "pan"

\* C17 as stated: from the idle controller a pointer-down of the mouse or
\* of a single finger on the empty canvas starts panning exactly when the
\* view window is narrower than the reference width; otherwise the
\* controller stays idle and moves emit no pan event.
C17_PanIffZoomedIn ==
  Idle(im) =>
    \A p \in Points :
      \A res \in {MouseOnCanvas(p), TouchOnCanvas(p)} :
        /\ res.im.isPanning <=> viewBox.width < baseWidth
        /\ ~res.im.isPanning => Idle(res.im) /\ NoPanOnMove(res)

\* C17 amended: from the idle controller a pointer-down of the mouse on the
\* empty canvas starts panning exactly when the view window is narrower
\* than the reference width; a pointer-down of a single finger on the empty
\* canvas never starts panning; where panning does not start the controller
\* stays idle and moves emit no pan event.
C17_MousePanIffZoomedIn ==
  Idle(im) =>
    \A p \in Points :
      /\ MouseOnCanvas(p).im.isPanning <=> viewBox.width < baseWidth
      /\ ~TouchOnCanvas(p).im.isPanning
      /\ \A res \in {MouseOnCanvas(p), TouchOnCanvas(p)} :
           ~res.im.isPanning => Idle(res.im) /\ NoPanOnMove(res)

\* C17 witness: the mouse pans a zoomed-in canvas, no finger on it.
C17_Witness ==
  /\ im.isPanning /\ ~im.isTwoFingerGesture
  /\ contacts.mouse /\ contacts.touches = 0
  /\ viewBox.width < baseWidth
  /\ emitted.type = "pan"

C19_ZoomAboutInitialCenter ==
  (im.isTwoFingerGesture /\ contacts.touches = 2) =>
    \A t \in TouchPairs :
      LET event == onTouchMove(Before, objects, nodes, 2, t, "handleInteraction").emitted IN
      event.type = "zoom" =>
           /\ event.centerX = toViewX(viewBox, im.initialPinchCenterX)
           /\ event.centerY = toViewY(viewBox, im.initialPinchCenterY)

\* C19 amended: the point of every zoom event of a two-finger gesture is
\* the centre of the touches of the move that emits it, in view-window
\* coordinates.
C19_ZoomAboutCurrentCenter ==
  (im.isTwoFingerGesture /\ contacts.touches = 2) =>
    \A t \in TouchPairs :
      LET event == onTouchMove(Before, objects, nodes, 2, t, "handleInteraction").emitted IN
      event.type = "zoom" =>
           /\ event.centerX = toViewX(viewBox, Center(t)[1])
           /\ event.centerY = toViewY(viewBox, Center(t)[2])

\* C19 witness: a zoom gesture in which a move has a centre other than the
\* one the gesture began with.
C19_Witness ==
  /\ im.isTwoFingerGesture /\ im.gestureType = "zoom" /\ contacts.touches = 2
  /\ emitted.type = "zoom"
  /\ \E t \in TouchPairs :
       Center(t) # <<im.initialPinchCenterX, im.initialPinchCenterY>>

\* The node a target is tagged with.
TaggedNode(target) ==
  findInGroups(objects, nodes,
               IF target.objectId # Null THEN target.objectId ELSE target.object)

\* C20: a pointer-down of the mouse or of a single finger on a target
\* tagged with a node, its body or one of its handles, leaves that node the
\* selected object.
C20_PointerDownSelects ==
  \A target \in Targets(objects, nodes, selectedObject) \ {Canvas}, p \in Points :
    /\ onMouseDown(Before, objects, nodes, target, p,
                   "handleInteraction").selectedObject
         = TaggedNode(target)
    /\ onTouchStart(Before, objects, nodes, 1, <<p, p>>, target,
                    "handleInteraction").selectedObject
         = TaggedNode(target)

\* The places of a node a drag writes.
Placed(h, r) == <<h[r].offset, h[r].anchor>>

\* C21: while a node is locked, a pointer-down of the mouse or of a single
\* finger on its body or on a handle of it starts no drag, and no move of
\* the mouse or of a finger changes the node's offset or its geometry.
C21_LockedStaysPut ==
  \A r \in Reachable(objects, nodes) :
    nodes[r].locked =>
      /\ \A target \in Targets(objects, nodes, selectedObject) \ {Canvas},
            p \in Points :
           TaggedNode(target) = r =>
             /\ onMouseDown(Before, objects, nodes, target, p,
                            "handleInteraction").im.isDragging
                  => im.isDragging
             /\ onTouchStart(Before, objects, nodes, 1, <<p, p>>, target,
                             "handleInteraction").im.isDragging
                  => im.isDragging
      /\ \A p \in Points :
           /\ Placed(handlePointerMove(Before, objects, nodes, p[1], p[2],
                                       "handleInteraction").nodes, r)
                = Placed(nodes, r)
           /\ Placed(onTouchMove(Before, objects, nodes, 1, <<p, p>>,
                                 "handleInteraction").nodes, r)
                = Placed(nodes, r)

\* What a handler run with an onUpdate that answers nothing leaves of the
\* scene graph and of the cameras.
Kept(st) ==
  /\ st.objects = objects
  /\ st.nodes = nodes
  /\ ~st.saved
  /\ st.camera = camera
  /\ st.im.camera = im.camera

\* Every handler of the controller run once on st, with every input, its
\* events answered by nothing.
Runs(st) ==
  LET objs == st.objects
      h == st.nodes
      targets == Targets(objs, h, st.selectedObject)
  IN {onMouseDown(st, objs, h, target, p, "noted") :
        target \in targets, p \in Points}
     \cup {handlePointerMove(st, objs, h, p[1], p[2], "noted") : p \in Points}
     \cup {handlePointerUp(st, objs, h, "noted")}
     \cup {onTouchStart(st, objs, h, 1, <<p, p>>, target, "noted") :
             target \in targets, p \in Points}
     \cup {onTouchStart(st, objs, h, 2, t, Canvas, "noted") : t \in TouchPairs}
     \cup {onTouchMove(st, objs, h, 1, <<p, p>>, "noted") : p \in Points}
     \cup {onTouchMove(st, objs, h, 2, t, "noted") : t \in TouchPairs}
     \cup {onTouchEnd(st, objs, h, n, "noted") : n \in 0..1}
     \cup {onWheel(st, objs, h, inside, p, deltaY, "noted") :
             inside \in BOOLEAN, p \in Points, deltaY \in {-1, 1}}

\* C22: no handler of the controller (pointer down, move and up, touch
\* start, move and end, wheel), nor a two-finger move or a touch end after
\* a two-finger touch start, changes by itself a node of the scene graph,
\* the list of objects, the Camera or the controller's copy of the camera:
\* with its events left unanswered all of them are as they were.
C22_HandlersOnlyEmit ==
  \A st1 \in Runs(Before) :
    /\ Kept(st1)
    /\ st1.im.isTwoFingerGesture =>
         /\ \A t \in TouchPairs :
              Kept(onTouchMove(st1, st1.objects, st1.nodes, 2, t, "noted"))
         /\ \A n \in 0..1 :
              Kept(onTouchEnd(st1, st1.objects, st1.nodes, n, "noted"))

\* C22 witness: a drag is on and has moved the object; the move handler
\* emits a drag event which, answered by the App, moves it again and,
\* left unanswered, moves nothing.
C22_Witness ==
  /\ im.isDragging
  /\ watch.moves > 0
  /\ \E p \in Points :
       /\ handlePointerMove(Before, objects, nodes, p[1], p[2],
                            "handleInteraction").nodes # nodes
       /\ handlePointerMove(Before, objects, nodes, p[1], p[2],
                            "noted").emitted.type = "drag"
       /\ handlePointerMove(Before, objects, nodes, p[1], p[2],
                            "noted").nodes = nodes

\* What the end of a call that returned res leaves with the listeners and
\* the project manager: every listener subscribed was called, and the timer
\* whose handle the project manager holds is pending.
Announces(res) ==
  LET a == announced(res, pm, listeners) IN
  /\ \A l \in listeners : a.heard[l] >= 1
  /\ a.pm.saveTimeout # Null
  /\ a.pm.saveTimeout \in Range(a.pm.timers)
  /\ a.pm.hasUnsavedChanges

\* C23: every add, update, remove, moveToGroup or removeFromGroup that
\* succeeds calls every listener subscribed at that moment at least once
\* before it returns, and leaves a timer pending that will write the
\* projects to storage.
C23_SuccessAnnounced ==
  /\ \A id \in AddIds, g \in BOOLEAN :
       LET res == add(objects, nodes, id, g) IN
         (HasFree(nodes) /\ res.ok) => Announces(res)
  /\ \A id \in AnyIds :
       /\ \A updates \in Updates :
            LET res == update(objects, nodes, id, updates) IN
              res.ok => Announces(res)
       /\ LET res == remove(objects, nodes, id) IN res.ok => Announces(res)
       /\ LET res == removeFromGroup(objects, nodes, id) IN
            res.ok => Announces(res)
       /\ \A groupId \in AnyIds :
            LET res == moveToGroup(objects, nodes, id, groupId) IN
              res.ok => Announces(res)

\* C23 witness: two callbacks are subscribed, a call has left a timer
\* pending, and a node can be moved into a group and another taken out of
\* one.
C23_Witness ==
  /\ Cardinality(listeners) >= 2
  /\ pm.saveTimeout # Null
  /\ \E id \in Ids, groupId \in Ids :
       moveToGroup(objects, nodes, id, groupId).ok
  /\ \E id \in Ids : removeFromGroup(objects, nodes, id).ok

\* C24: at every moment at most one timer of the project manager is
\* pending, so that a burst of changes is written once, after its last
\* change.
C24_OneTimerPending == Len(pm.timers) <= 1

\* C25: forceSave writes the projects as they are in memory to storage,
\* during the call, whether or not a timer is pending and whether or not
\* changes are flagged; after the write there are no unsaved changes.
C25_ForceSaveWrites ==
  LET r == forceSave(Begun(pm), serialize(assets, nodes), FALSE) IN
  /\ r.wrote /\ r.ok
  /\ r.pm.item = [present |-> TRUE, value |-> serialize(assets, nodes)]
  /\ ~r.pm.hasUnsavedChanges

\* C25 witness: a save was forced, nothing has changed since, a timer is
\* still pending, and the scene graph has an object.
C25_Witness ==
  /\ watch.wrote = "forced"
  /\ ~pm.hasUnsavedChanges
  /\ pm.timers # <<>>
  /\ objects # <<>>

\* A save whose write failed: nothing thrown, the scene graph, the
\* project's assets, the unsaved changes and what storage holds as they
\* were.
Survived(w) ==
  /\ ~w.raised /\ ~w.wrote
  /\ w.objects = objects /\ w.nodes = nodes /\ w.assets = assets
  /\ w.pm.hasUnsavedChanges
  /\ w.pm.item = pm.item

\* C26: when the write to storage fails, in the timer's save() or in
\* forceSave(), nothing is thrown and the projects and the scene graph in
\* memory are what they were before the write.
C26_FailedWriteHarmless ==
  /\ pm.timers # <<>> /\ pm.hasUnsavedChanges =>
       Survived(timerFired(objects, nodes, assets, pm, TRUE))
  /\ Survived(Written(objects, nodes, assets,
                      forceSave(Begun(pm), serialize(assets, nodes), TRUE)))

\* C26 witness: a write has failed with an object in the scene graph and
\* a timer still pending, and the changes are still flagged.
C26_Witness ==
  /\ watch.wrote = "failed"
  /\ pm.hasUnsavedChanges
  /\ pm.timers # <<>>
  /\ objects # <<>>

\* C27: from one display refresh to the next, that refresh included,
\* render() is called at most once however often requestRender is called,
\* and that one call draws the scene requested last.
C27_OneRenderPerRefresh ==
  /\ watch.renders <= 1
  /\ watch.closed /\ watch.renders = 1 => watch.drawn = watch.requested

\* C28: after any calls of setZoom, zoomIn, zoomOut and zoomWheel, with
\* any arguments and in any order, the zoom z of the camera is a number
\* with minZoom <= z <= maxZoom.
C28_ZoomInRange ==
  /\ camera.z # NaN
  /\ camera.minZoom <= camera.z
  /\ camera.z <= camera.maxZoom

\* C29: for every number a, zoomIn(a) sets z to clamp(z - a) and
\* zoomOut(a) sets z to clamp(z + a); zoomIn(50) at z = 200 gives 150, and
\* zoomIn(a) then zoomOut(a) gives z back when neither call clamps.
C29_ZoomByAmount ==
  /\ zoomIn(newCamera(200), 50).z = 150
  /\ \A a \in Amounts :
       LET in == zoomIn(camera, a)
           out == zoomOut(camera, a)
       IN /\ in.z = clamp(Minus(camera.z, a), camera.minZoom, camera.maxZoom)
          /\ out.z = clamp(Plus(camera.z, a), camera.minZoom, camera.maxZoom)
          /\ (in.z = Minus(camera.z, a) /\ zoomOut(in, a).z = Plus(in.z, a))
               => zoomOut(in, a).z = camera.z

\* The cameras a scene is drawn with.
Cameras == {[x |-> cx, y |-> cy, z |-> z] :
              cx \in {0, 10}, cy \in {0, -4}, z \in {100, 200}}

\* The groups a node is below.
AncestorsOf(r) ==
  {g \in Reachable(objects, nodes) :
     r \in ReachFrom(nodes, Range(nodes[g].children), MaxNodes)}

RECURSIVE SumOver(_, _)
SumOver(S, k) ==
  IF S = {} THEN 0
  ELSE LET g == CHOOSE g \in S : TRUE IN
       nodes[g].offset[k] + SumOver(S \ {g}, k)

\* C30: for a node at any depth the accumulated transform has x = camera.x
\* + the node's offset.x + the offset.x of every group above it, y
\* likewise, and the scale 200 / camera.z; the rotate of the node and of
\* the groups above it does not change the result.
C30_AccumulatedTransform ==
  \A r \in Reachable(objects, nodes), cam \in Cameras :
    LET t == calculateAccumulatedTransform(objects, nodes, nodes[r].id, cam)
    IN /\ t.x = cam.x + nodes[r].offset[1] + SumOver(AncestorsOf(r), 1)
       /\ t.y = cam.y + nodes[r].offset[2] + SumOver(AncestorsOf(r), 2)
       /\ t.scale = <<200, cam.z>>
       /\ \A s \in AncestorsOf(r) \cup {r}, rotate \in Rotations :
            calculateAccumulatedTransform(
              objects, [nodes EXCEPT ![s].rotate = rotate], nodes[r].id, cam)
            = t

\* The zoom levels a scene is drawn with, each with its double.
Zooms == {100, 200, 400}

\* C31: for a node at any depth and any camera.z > 0 the scale the
\* transform resolves to and the scale the node is drawn with are both
\* 200 / camera.z, so that doubling camera.z halves them.
C31_ScaleLinear ==
  \A r \in Reachable(objects, nodes), z \in Zooms :
    LET cam == [x |-> 0, y |-> 0, z |-> z]
        twice == [x |-> 0, y |-> 0, z |-> 2 * z]
        resolved(c) ==
          calculateAccumulatedTransform(objects, nodes, nodes[r].id, c).scale
        drawn(c) == {d.scale : d \in {e \in render(objects, nodes, c) :
                                        e.object = r}}
    IN /\ SameNumber(resolved(cam), <<200, z>>)
       /\ SameNumber(Product(resolved(twice), <<2, 1>>), resolved(cam))
       /\ \A s \in drawn(cam) : SameNumber(s, <<200, z>>)
       /\ \A s \in drawn(cam), t \in drawn(twice) :
            SameNumber(Product(t, <<2, 1>>), s)

DragOn == watch.armed /\ im.isDragging /\ im.dragHandle # NoHandle

\* C33: a drag of a handle is ended by one drag-end event: the release of
\* the mouse button or of the finger that drags emits it, a second finger
\* that cancels the drag emits it, and with no drag in progress (no handle
\* pressed since the last release of all contacts) no release emits one.
C33_OneDragEnd ==
  /\ (DragOn /\ contacts.mouse /\ contacts.touches = 0) =>
       handlePointerUp(Before, objects, nodes,
                       "handleInteraction").emitted.type = "drag-end"
  /\ (DragOn /\ ~contacts.mouse /\ contacts.touches = 1) =>
       /\ onTouchEnd(Before, objects, nodes, 0,
                     "handleInteraction").emitted.type = "drag-end"
       /\ \A t \in TouchPairs :
            onTouchStart(Before, objects, nodes, 2, t, Canvas,
                         "handleInteraction").emitted.type = "drag-end"
  /\ ~watch.armed =>
       /\ handlePointerUp(Before, objects, nodes,
                          "handleInteraction").emitted.type # "drag-end"
       /\ \A n \in 0..1 :
            onTouchEnd(Before, objects, nodes, n,
                       "handleInteraction").emitted.type # "drag-end"

\* C34: for any camera zoom z > 0, a move of the pointer that drags the
\* origin handle of a node moves the place the accumulated transform gives
\* the node by the distance the pointer moved in the view, so that the node
\* stays under the pointer.
C34_FollowsPointer ==
  (im.isDragging /\ im.dragHandle.type = "origin") =>
    \A z \in Zooms, p \in Points :
      LET cam == [camera EXCEPT !.z = z]
          st == renderScene([Before EXCEPT !.camera = cam])
          res == handlePointerMove(st, objects, nodes, p[1], p[2],
                                   "handleInteraction")
          view == computeSvgDelta(viewBox, p[1] - im.lastX, p[2] - im.lastY)
          id == im.dragHandle.objectId
          before == calculateAccumulatedTransform(objects, nodes, id,
                                                  getState(cam))
          after == calculateAccumulatedTransform(res.objects, res.nodes, id,
                                                 getState(cam))
      IN /\ after.x - before.x = view[1]
         /\ after.y - before.y = view[2]

\* Shapes are created and locked and unlocked through the App while timers
\* fire and saves are forced. The browser runs the callback of every timer
\* that is pending: the debounce timer set by scheduleSave fires unless it
\* is cleared first.
NextSettle == AddShape \/ UpdateSelected \/ TimerFires \/ ForceSave

SpecSettle == Init /\ [][NextSettle]_vars /\ WF_vars(TimerFires)

\* What is in storage is the project as it is in memory, and no change is
\* flagged as unsaved.
InStorage ==
  /\ pm.item = [present |-> TRUE, value |-> serialize(assets, nodes)]
  /\ ~pm.hasUnsavedChanges

\* C35: if from some point on the scene graph is not changed any more and
\* no write to storage fails, then the debounce timer fires, and from then
\* on storage holds the project as it is in memory and hasUnsavedChanges
\* is false.
C35_EventuallySaved ==
  ([](watch.wrote # "failed") /\ <>[][~(AddShape \/ UpdateSelected)]_vars)
    => <>[](InStorage /\ pm.timers = <<>>)

\* A timer wrote a project that holds a node, and nothing is pending.
C35_Witness ==
  /\ watch.wrote = "timer"
  /\ objects # <<>>
  /\ InStorage
  /\ pm.timers = <<>>

\* C36: the controller is in at most one gesture mode at a time: at most
\* one of isDragging, isPanning and isTwoFingerGesture is true.
C36_OneMode ==
  /\ ~(im.isDragging /\ im.isPanning)
  /\ ~(im.isDragging /\ im.isTwoFingerGesture)
  /\ ~(im.isPanning /\ im.isTwoFingerGesture)

\* A two-finger gesture has resolved to zoom or to pan.
Resolved == im.isTwoFingerGesture /\ im.gestureType \in {"zoom", "pan"}

\* What the next move of the fingers at t leaves.
Moved(t) ==
  onTouchMove(Before, objects, nodes, contacts.touches, t,
              "handleInteraction")

\* C37: once a two-finger gesture has resolved to zoom or to pan, every
\* move keeps that type and emits no event of the other type, and every
\* event that leaves two contacts or more down keeps the type.
C37_TypeKept ==
  /\ [](Resolved /\ contacts.touches >= 2 =>
          \A t \in Touches(contacts.touches) :
            /\ Moved(t).im.gestureType = im.gestureType
            /\ im.gestureType = "zoom" => Moved(t).emitted.type # "pan"
            /\ im.gestureType = "pan" => Moved(t).emitted.type # "zoom")
  /\ [][Resolved /\ contacts'.touches >= 2 =>
          im'.gestureType = im.gestureType]_vars

\* A gesture has resolved, and a move that a first move would decide as
\* the other type emits an event of the type the gesture resolved to.
C37_Witness ==
  /\ Resolved
  /\ contacts.touches = 2
  /\ \E t \in Touches(2) :
       /\ Moved(t).emitted.type = im.gestureType
       /\ decideGesture(
            Abs(Sqrt(SquaredDistance(t[1], t[2])) - im.initialPinchDistance),
            SquaredDistance(<<im.initialPinchCenterX, im.initialPinchCenterY>>,
                            Center(t))) \notin {im.gestureType, "none"}

\* add with any id, clone, moveToGroup, removeFromGroup (no remove).
NextGroup == AddAny \/ Clone \/ MoveToGroup \/ RemoveFromGroup

SpecGroup == Init /\ [][NextGroup]_vars

\* The number of nodes in the forest.
Count(objs, h) == Cardinality(Reachable(objs, h))

\* C38: a call to moveToGroup or removeFromGroup never loses a node: the
\* number of nodes in the forest after the call is the same as before it,
\* whatever the call returns.
C38_NoNodeLost ==
  /\ \A a \in AnyIds, b \in AnyIds :
       LET res == moveToGroup(objects, nodes, a, b) IN
       Count(res.objects, res.nodes) = Count(objects, nodes)
  /\ \A a \in AnyIds :
       LET res == removeFromGroup(objects, nodes, a) IN
       Count(res.objects, res.nodes) = Count(objects, nodes)

\* add while fewer than MaxShapes nodes are in memory.
AddFew == Cardinality(Allocated(nodes)) < MaxShapes /\ AddNew

\* Nodes are added and moved into groups while projects are created,
\* loaded and deleted.
NextProjects ==
  \/ AddFew \/ MoveToGroup
  \/ CreateProject \/ LoadProject \/ DeleteProject

SpecProjects == Init /\ [][NextProjects]_vars

\* What a call on the CollectionManager leaves of the current project's
\* assets and of the collection's list: the same nodes in the same order.
InStep(res) ==
  LET as == IF res.saved THEN updateCurrentAssets(res.objects) ELSE assets
      objs == IF res.saved THEN loadFromProject(as) ELSE res.objects
  IN as = objs

\* C39: after every mutating operation of the CollectionManager and after
\* every operation of the ProjectManager that changes the current project,
\* the assets of the current project are the top-level nodes of the
\* collection, the same nodes in the same order.
C39_AssetsAreObjects ==
  /\ assets = objects
  /\ \A id \in AddIds, g \in BOOLEAN :
       HasFree(nodes) => InStep(add(objects, nodes, id, g))
  /\ \A id \in AnyIds, updates \in Updates :
       InStep(update(objects, nodes, id, updates))
  /\ \A id \in AnyIds :
       /\ InStep(remove(objects, nodes, id))
       /\ InStep(removeFromGroup(objects, nodes, id))
       /\ (getById(objects, nodes, id) # Null
             /\ CopySize(nodes, getById(objects, nodes, id))
                  <= Cardinality(Refs \ Allocated(nodes)))
            => InStep(clone(objects, nodes, id))
  /\ \A a \in AnyIds, b \in AnyIds :
       InStep(moveToGroup(objects, nodes, a, b))

\* A project with a node has been loaded, and the project that was the
\* current one before, with a node of its own, is put aside.
C39_Witness ==
  /\ Len(pm.projects) = 2
  /\ Shelved(pm) # <<>>
  /\ objects # <<>>
  /\ watch.wrote = "project"
  /\ assets = objects

\* Objects and groups are created, selected in the collection panel,
\* deleted and moved into and out of groups through the App.
NextPanel ==
  \/ AddShape \/ CreateGroup \/ SelectInPanel
  \/ DeleteSelected \/ AssignToGroup

SpecPanel == Init /\ [][NextPanel]_vars

====
